---- MODULE Spec2Model ----
(***************************************************************************)
(* Model of the iAgent DevOps repository: the CDK stack constructors (the  *)
(* "Environment Assembler") and the deploy / teardown scripts (the         *)
(* "Lifecycle Orchestrator").  One run of one script entrypoint is a       *)
(* behaviour: pc is the script function about to run, calls is the log of  *)
(* commands sent to the cloud collaborator (aws, cdk, kubectl), cloud is   *)
(* the collaborator's resource state.                                      *)
(***************************************************************************)
EXTENDS Integers, Sequences, FiniteSets, TLC

VARIABLES
  script,     \* the entrypoint being run
  pc,         \* the script function about to run, or "done"
  reply,      \* what the operator typed at the prompt ("<none>": no prompt read)
  calls,      \* sequence of [op, target, ok]: commands sent to the collaborator
  cloud,      \* resource -> status, the collaborator's state
  out,        \* sequence of [sev, msg]: tagged lines printed to the operator
  trace,      \* sequence of the steps the run has executed
  exitCode,   \* -1 while running, else the process exit code
  missing,    \* the local tool that is not installed, or "none"
  credsOk,    \* whether the AWS credentials are valid
  cfg,        \* the sizing configuration handed to the stack constructor
  stackKind,  \* which stack class is constructed
  built,      \* result of the constructor: [err, min, max, desired]
  orphans,    \* resources that exist outside the CDK stack (made by hand or by another variant)
  flags,      \* the optional features handed to the stack constructor
  plan,       \* the constructs of the stack, in creation order: [name, dependsOn]
  again,      \* the constructs of a second stack built from the same props
  shell       \* the script's own variables (counters, pending function calls)

vars == <<script, pc, reply, calls, cloud, out, trace, exitCode, missing,
          credsOk, cfg, stackKind, built, orphans, flags, plan, again, shell>>

----------------------------------------------------------------------------
(* Bounds *)

MaxSize == 3

\* how many polls of a wait loop are explored
MaxPolls == 4

\* how many choices at an interactive menu are explored
MaxChoices == 4

----------------------------------------------------------------------------
(* The cloud collaborator *)

Resources == {"bootstrap", "vpc", "ecr_backend", "ecr_frontend", "cluster",
              "nodes", "k8s", "monitoring", "logs"}

Status == {"absent", "inProgress", "active", "failed"}

\* what one delete command removes when it succeeds
Deletes(target) ==
  CASE target = "k8s"          -> {"k8s"}
    [] target = "ecr_backend"  -> {"ecr_backend"}
    [] target = "ecr_frontend" -> {"ecr_frontend"}
    [] target = "cluster"      -> {"cluster", "nodes", "k8s"}
    [] target = "vpc"          -> {"vpc"}
    [] target = "logs"         -> {"logs"}
    [] target = "monitoring"   -> {"monitoring"}
    [] target = "infra"        -> {"vpc", "ecr_backend", "ecr_frontend",
                                   "cluster", "nodes", "k8s"}
    [] OTHER                   -> {}

Call(op, target, ok) == Append(calls, [op |-> op, target |-> target, ok |-> ok])

Removed(c, target) ==
  [r \in Resources |-> IF r \in Deletes(target) THEN "absent" ELSE c[r]]

\* a stack destroy removes what the stack manages, not the orphans
StackDestroyed(c, target) ==
  [r \in Resources |-> IF r \in Deletes(target) \ orphans THEN "absent" ELSE c[r]]

Say(sev, msg) == Append(out, [sev |-> sev, msg |-> msg])

Exists(r) == cloud[r] # "absent"

AllAbsent == [r \in Resources |-> "absent"]

----------------------------------------------------------------------------
(* Environment Assembler: main.ts and the three stack constructors *)

Unset == -1

Sizes == 0..MaxSize

\* props.enableSpotInstances?: boolean -- given as true, given as false, or
\* left out
Configs == [min : Sizes, max : Sizes, desired : Sizes,
            spot : {"true", "false", "undefined"}]

StackKinds == {"CostOptimized", "IAgent", "Raw"}

\* JavaScript `v || d` on a number: 0 is falsy and is replaced by d
OrDefault(v, d) == IF v = 0 THEN d ELSE v

\* parseInt(process.env.X || 'd'): an unset variable reads as the default,
\* the string "0" is truthy and parses to 0
ParseEnv(e, d) == IF e = Unset THEN d ELSE e

\* main.ts: the sizing configuration read from the environment
main_ts(e) == [min     |-> ParseEnv(e.min, 1),
               max     |-> ParseEnv(e.max, 3),
               desired |-> ParseEnv(e.desired, 2),
               spot    |-> "undefined"]

\* cluster.addNodegroupCapacity: the aws-cdk-lib Nodegroup construct refuses
\* a desired size above the maximum or below the minimum at synthesis time
addNodegroupCapacity(ng) ==
  IF ng.desired > ng.max \/ ng.desired < ng.min
    THEN [ng EXCEPT !.err = "ValidationError"]
    ELSE ng

\* new eks.CfnNodegroup: the raw CloudFormation resource, no check at synthesis
CfnNodegroup(ng) == ng

CostOptimizedInfrastructureStack_OrTrue(c) ==
  addNodegroupCapacity([err |-> "none", min |-> OrDefault(c.min, 0),
                        max |-> OrDefault(c.max, 3),
                        desired |-> OrDefault(c.desired, 1),
                        capacityType |-> "SPOT"])

\* props.enableSpotInstances ?? true: only a flag left out reads as true
CostOptimizedInfrastructureStack(c) ==
  LET minSize     == OrDefault(c.min, 0)
      maxSize     == OrDefault(c.max, 3)
      desiredSize == OrDefault(c.desired, 1)
      enableSpotInstances == IF c.spot = "undefined" THEN TRUE
                             ELSE c.spot = "true"
  IN  addNodegroupCapacity([err |-> "none", min |-> minSize, max |-> maxSize,
                            desired |-> desiredSize,
                            capacityType |-> IF enableSpotInstances THEN "SPOT"
                                             ELSE "ON_DEMAND"])

IAgentInfrastructureStack(c) ==
  addNodegroupCapacity([err     |-> "none",
                        min     |-> OrDefault(c.min, 1),
                        max     |-> OrDefault(c.max, 3),
                        desired |-> OrDefault(c.desired, 2),
                        capacityType |-> "ON_DEMAND"])

RawInfrastructureStack(c) ==
  LET minSize     == OrDefault(c.min, 0)
      maxSize     == OrDefault(c.max, 2)
      desiredSize == OrDefault(c.desired, 1)
      enableSpotInstances == IF c.spot = "undefined" THEN TRUE
                             ELSE c.spot = "true"
  IN  CfnNodegroup([err |-> "none", min |-> minSize, max |-> maxSize,
                    desired |-> desiredSize,
                    capacityType |-> IF enableSpotInstances THEN "SPOT"
                                     ELSE "ON_DEMAND"])

Constructor(kind, c) ==
  CASE kind = "CostOptimized" -> CostOptimizedInfrastructureStack(c)
    [] kind = "IAgent"        -> IAgentInfrastructureStack(c)
    [] kind = "Raw"           -> RawInfrastructureStack(c)

DefaultConfig == [min |-> 1, max |-> 3, desired |-> 2]

NotBuilt == [err |-> "unbuilt", min |-> 0, max |-> 0, desired |-> 0,
             capacityType |-> "none"]

\* enableMonitoring, enableAlarms, and whether domainName is given
Flags == [monitoring : BOOLEAN, alarms : BOOLEAN, domain : BOOLEAN]

\* main.ts with nothing set: process.env.X !== 'false', DOMAIN_NAME undefined
DefaultFlags == [monitoring |-> TRUE, alarms |-> TRUE, domain |-> FALSE]

\* a construct added to the stack, and the constructs its definition refers to
ResourceNode(name, deps) == [name |-> name, dependsOn |-> deps]

\* cost-optimized-infrastructure-stack.ts: the constructs in the order the
\* constructor creates them; props.domainName is accepted and never read
CostOptimizedPlan(f) ==
  LET setupCostMonitoring ==
        << ResourceNode("alarmTopic", {}),
           ResourceNode("EstimatedCostAlarm", {"alarmTopic"}),
           ResourceNode("ClusterStatusAlarm", {"cluster", "alarmTopic"}) >>
      setupCostOptimizedMonitoring ==
        << ResourceNode("ClusterLogGroup", {"cluster"}),
           ResourceNode("ApplicationLogGroup", {"cluster"}),
           ResourceNode("dashboard", {"cluster"}) >>
  IN  << ResourceNode("vpc", {}),
         ResourceNode("backendRepository", {}),
         ResourceNode("frontendRepository", {}),
         ResourceNode("EKSServiceRole", {}),
         ResourceNode("KubectlLayer", {}),
         ResourceNode("cluster", {"vpc", "EKSServiceRole", "KubectlLayer"}),
         ResourceNode("NodeGroupRole", {}),
         ResourceNode("nodeGroup", {"cluster", "NodeGroupRole"}),
         ResourceNode("ClusterAutoscaler", {"cluster"}) >>
      \o (IF f.alarms THEN setupCostMonitoring ELSE << >>)
      \o (IF f.monitoring THEN setupCostOptimizedMonitoring ELSE << >>)

\* iagent-infrastructure-stack.ts setupMonitoring(enableAlarms): the topic
\* first, then the dashboard, the log groups, and the alarms if enabled
setupMonitoring(enableAlarms) ==
  << ResourceNode("alarmTopic", {}),
     ResourceNode("dashboard", {"cluster"}),
     ResourceNode("IAgentAppLogs", {}),
     ResourceNode("IAgentAccessLogs", {}),
     ResourceNode("IAgentErrorLogs", {}) >>
  \o (IF enableAlarms
        THEN << ResourceNode("HighCpuAlarm", {"alarmTopic"}),
                ResourceNode("HighMemoryAlarm", {"alarmTopic"}),
                ResourceNode("HighErrorRateAlarm", {"alarmTopic"}) >>
        ELSE << >>)

\* the certificate requested before the hosted zone that validates it
IAgentPlan_CertificateFirst(f) ==
  << ResourceNode("vpc", {}),
     ResourceNode("cluster", {"vpc"}),
     ResourceNode("nodeGroup", {"cluster"}) >>
  \o (IF f.domain
        THEN << ResourceNode("certificate", {"hostedZone"}),
                ResourceNode("hostedZone", {}) >>
        ELSE << >>)
  \o (IF f.monitoring THEN setupMonitoring(f.alarms) ELSE << >>)

\* iagent-infrastructure-stack.ts: the constructs in the order the
\* constructor creates them
IAgentPlan(f) ==
  << ResourceNode("vpc", {}),
     ResourceNode("backendRepository", {}),
     ResourceNode("frontendRepository", {}),
     ResourceNode("cluster", {"vpc"}),
     ResourceNode("nodeGroup", {"cluster"}),
     ResourceNode("ClusterAutoscaler", {"cluster"}),
     ResourceNode("AwsLoadBalancerController", {"cluster"}),
     ResourceNode("ExternalDNS", {"cluster"}),
     ResourceNode("MetricsServer", {"cluster"}),
     ResourceNode("NginxIngressController", {"cluster"}) >>
  \o (IF f.domain
        THEN << ResourceNode("hostedZone", {}),
                ResourceNode("certificate", {"hostedZone"}) >>
        ELSE << >>)
  \o (IF f.monitoring THEN setupMonitoring(f.alarms) ELSE << >>)

\* the raw CloudFormation variant: one repository, no add-on, no monitoring
RawPlan(f) ==
  << ResourceNode("vpc", {}),
     ResourceNode("backendRepository", {}),
     ResourceNode("EKSServiceRole", {}),
     ResourceNode("cluster", {"vpc", "EKSServiceRole"}),
     ResourceNode("NodeGroupRole", {}),
     ResourceNode("nodeGroup", {"cluster", "NodeGroupRole", "vpc"}) >>

Plan(kind, f) ==
  CASE kind = "CostOptimized" -> CostOptimizedPlan(f)
    [] kind = "IAgent"        -> IAgentPlan(f)
    [] kind = "Raw"           -> RawPlan(f)

Names(p) == {p[i].name : i \in 1..Len(p)}

\* a stack class is instantiated with a sizing configuration
InitPlan ==
  /\ script = "synth"
  /\ pc = "construct"
  /\ reply = "<none>"
  /\ calls = << >>
  /\ cloud = AllAbsent
  /\ out = << >>
  /\ trace = << >>
  /\ exitCode = -1
  /\ missing = "none"
  /\ credsOk = TRUE
  /\ cfg \in Configs
  /\ stackKind \in StackKinds
  /\ built = NotBuilt
  /\ orphans = {}
  /\ flags \in Flags
  /\ plan = << >>
  /\ again = << >>
  /\ shell = << >>

\* new Stack(app, id, props): a constructor that throws leaves no stack
Construct ==
  /\ script = "synth"
  /\ pc = "construct"
  /\ built' = Constructor(stackKind, cfg)
  /\ plan' = IF built'.err = "none" THEN Plan(stackKind, flags) ELSE << >>
  /\ pc' = "done"
  /\ exitCode' = IF built'.err = "ValidationError" THEN 1 ELSE 0
  /\ UNCHANGED <<script, reply, calls, cloud, out, trace, missing, credsOk,
                 cfg, stackKind, orphans, flags, again, shell>>

\* a second instantiation that stamps the stack with the time of the build
Reconstruct_Stamped ==
  /\ script = "synth"
  /\ pc = "done"
  /\ built.err = "none"
  /\ again = << >>
  /\ again' = Append(Plan(stackKind, flags), ResourceNode("deployedAt", {}))
  /\ UNCHANGED <<script, pc, reply, calls, cloud, out, trace, exitCode,
                 missing, credsOk, cfg, stackKind, built, orphans, flags, plan,
                 shell>>

\* the same class instantiated a second time with the same props
Reconstruct ==
  /\ script = "synth"
  /\ pc = "done"
  /\ built.err = "none"
  /\ again = << >>
  /\ again' = Plan(stackKind, flags)
  /\ UNCHANGED <<script, pc, reply, calls, cloud, out, trace, exitCode,
                 missing, credsOk, cfg, stackKind, built, orphans, flags, plan,
                 shell>>

\* enableMonitoring without the test of this.dashboard
enableMonitoring_Unguarded ==
  /\ script = "synth"
  /\ pc = "done"
  /\ stackKind = "IAgent"
  /\ built.err = "none"
  /\ Len(trace) < 2
  /\ plan' = plan \o setupMonitoring(TRUE)
  /\ trace' = Append(trace, "setupMonitoring")
  /\ UNCHANGED <<script, pc, reply, calls, cloud, out, exitCode, missing,
                 credsOk, cfg, stackKind, built, orphans, flags, again, shell>>

\* IAgentInfrastructureStack.enableMonitoring(enable = true), a public method
\* of the constructed stack
enableMonitoring ==
  /\ script = "synth"
  /\ pc = "done"
  /\ stackKind = "IAgent"
  /\ built.err = "none"
  /\ \E enable \in BOOLEAN :
       IF enable /\ "dashboard" \notin Names(plan)
         THEN /\ plan' = plan \o setupMonitoring(TRUE)
              /\ trace' = Append(trace, "setupMonitoring")
         ELSE UNCHANGED <<plan, trace>>
  /\ UNCHANGED <<script, pc, reply, calls, cloud, out, exitCode, missing,
                 credsOk, cfg, stackKind, built, orphans, flags, again, shell>>

\* IAgentInfrastructureStack.getAllResources(): the cluster, the two
\* repositories and the VPC, then this.logGroups, then the alarm topic and the
\* dashboard if they are set
getAllResources(p) ==
  LET IsLogGroup(n) == n.name \in {"IAgentAppLogs", "IAgentAccessLogs", "IAgentErrorLogs"}
      IsTopic(n)    == n.name = "alarmTopic"
      IsDashboard(n) == n.name = "dashboard"
      name(q) == [i \in 1..Len(q) |-> q[i].name]
  IN  << "cluster", "backendRepository", "frontendRepository", "vpc" >>
      \o name(SelectSeq(p, IsLogGroup))
      \o (IF \E i \in 1..Len(p) : IsTopic(p[i]) THEN << "alarmTopic" >> ELSE << >>)
      \o (IF \E i \in 1..Len(p) : IsDashboard(p[i]) THEN << "dashboard" >> ELSE << >>)

NextPlan == Construct \/ Reconstruct \/ enableMonitoring

SpecPlan == InitPlan /\ [][NextPlan]_vars

----------------------------------------------------------------------------
(* Properties of the Environment Assembler *)

SizingValid(c) == c.min <= c.desired /\ c.desired <= c.max

\* C4: buildPlan rejects every config with nodeMinSize > nodeDesiredSize or
\* nodeDesiredSize > nodeMaxSize and accepts every config with
\* nodeMinSize <= nodeDesiredSize <= nodeMaxSize, equal values included.
C4_SizingRejectedIffInvalid ==
  built.err # "unbuilt" =>
    /\ ~SizingValid(cfg) => built.err = "ValidationError"
    /\ SizingValid(cfg)  => built.err = "none"

\* the constructor has returned a stack and nothing was added to it since
Assembled == pc = "done" /\ built.err = "none" /\ trace = << >>

\* C12: for the configuration min 0, max 3, desired 1 with monitoring and
\* alarms on, the plan has a dashboard node and an alarmTopic node, and the
\* alarmTopic depends on the dashboard, which comes earlier in the plan.
C12_ScenarioA ==
  (/\ Assembled
   /\ cfg.min = 0 /\ cfg.max = 3 /\ cfg.desired = 1
   /\ flags.monitoring /\ flags.alarms) =>
     /\ {"dashboard", "alarmTopic"} \subseteq Names(plan)
     /\ \A i \in 1..Len(plan) :
          plan[i].name = "alarmTopic" =>
            /\ "dashboard" \in plan[i].dependsOn
            /\ \E j \in 1..(i-1) : plan[j].name = "dashboard"

\* C13: with enableMonitoring false the plan has no alarmTopic node and no
\* alarm, whatever enableAlarms is.
C13_NoAlarmsWithoutMonitoring ==
  (Assembled /\ ~flags.monitoring) =>
     Names(plan) \cap {"alarmTopic", "EstimatedCostAlarm", "ClusterStatusAlarm",
                       "HighCpuAlarm", "HighMemoryAlarm",
                       "HighErrorRateAlarm"} = {}

\* C14: whenever domainName is given, the plan contains a hosted zone and a
\* certificate.
C14_DomainImpliesZoneAndCertificate ==
  (Assembled /\ flags.domain) =>
     {"hostedZone", "certificate"} \subseteq Names(plan)

\* every dependsOn of every node names a node earlier in the sequence
Resolved(p) ==
  \A i \in 1..Len(p) :
    \A d \in p[i].dependsOn : \E j \in 1..(i-1) : p[j].name = d

C16_FiveAddonsInFixedOrder ==
  Assembled =>
    \E a, b, c, d, e \in 1..Len(plan) :
      /\ a < b /\ b < c /\ c < d /\ d < e
      /\ plan[a].name = "ClusterAutoscaler"
      /\ plan[b].name = "AwsLoadBalancerController"
      /\ plan[c].name = "ExternalDNS"
      /\ plan[d].name = "MetricsServer"
      /\ plan[e].name = "NginxIngressController"

C18_PlanNeverMutated ==
  [][pc = "done" => plan' = plan]_vars

----------------------------------------------------------------------------
(* Lifecycle Orchestrator: common parts of the script runs *)

Tools == {"node", "npm", "aws", "kubectl", "docker", "cdk", "git"}

Replies == {"YES", "yes", "DELETE", "y", "no", ""}

TeardownScripts == {"cleanup_aws", "destroy_all", "fargate_clean",
                    "fargate_stop", "ps1_destroy", "make_cleanup",
                    "teardown_doc"}

Has(tool) == missing # tool

\* kubectl reaches the cluster
KubectlWorks == Has("kubectl") /\ credsOk /\ cloud["cluster"] = "active"

Goto(l) == pc' = l /\ exitCode' = exitCode

Exit(code) == pc' = "done" /\ exitCode' = code

Did(fn) == trace' = Append(trace, fn)

Env == UNCHANGED <<script, missing, credsOk, stackKind, orphans, flags, plan,
                   again, shell>>

NoSynth == UNCHANGED <<cfg, built>>

\* the resources a teardown run may find: workloads need nodes, nodes need a
\* cluster, a cluster needs the network
Chain(n) ==
  [r \in {"vpc", "cluster", "nodes", "k8s"} |->
     IF \/ r = "vpc" /\ n >= 1
        \/ r = "cluster" /\ n >= 2
        \/ r = "nodes" /\ n >= 3
        \/ r = "k8s" /\ n >= 4
       THEN "active" ELSE "absent"]

OnOff(b) == IF b THEN "active" ELSE "absent"

CloudOf(n, reg, mon, logs, boot) ==
  [r \in Resources |->
     CASE r \in {"vpc", "cluster", "nodes", "k8s"}   -> Chain(n)[r]
       [] r \in {"ecr_backend", "ecr_frontend"}      -> OnOff(reg)
       [] r = "monitoring"                           -> OnOff(mon)
       [] r = "logs"                                 -> OnOff(logs)
       [] r = "bootstrap"                            -> OnOff(boot)]

TeardownClouds ==
  {CloudOf(n, reg, mon, logs, TRUE) :
     n \in 0..4, reg \in BOOLEAN, mon \in BOOLEAN, logs \in BOOLEAN}

OrphanSets == {{}, {"ecr_backend", "ecr_frontend"},
               {"vpc", "cluster", "nodes", "k8s"}}

Entry(sc) ==
  CASE sc = "cleanup_aws"   -> "confirm"
    [] sc = "destroy_all"   -> "creds"
    [] sc = "fargate_clean" -> "confirm"
    [] sc = "fargate_stop"  -> "destroy_infrastructure"
    [] sc = "ps1_destroy"   -> "Destroy-Infrastructure"
    [] sc = "make_cleanup"  -> "cleanup"
    [] sc = "teardown_doc"  -> "env"
    [] OTHER                -> "start"

InitTeardown ==
  /\ script \in TeardownScripts
  /\ pc = Entry(script)
  /\ reply = "<none>"
  /\ calls = << >>
  /\ cloud \in TeardownClouds
  /\ out = << >>
  /\ trace = << >>
  /\ exitCode = -1
  /\ missing \in {"none", "kubectl"}
  /\ credsOk \in BOOLEAN
  /\ cfg = DefaultConfig
  /\ stackKind = "CostOptimized"
  /\ built = NotBuilt
  /\ orphans \in OrphanSets
  /\ flags = DefaultFlags
  /\ plan = << >>
  /\ again = << >>
  /\ shell = << >>

----------------------------------------------------------------------------
(* cleanup-aws.sh (set -e) *)

\* the prompt compared without regard to case
CleanupAws_confirm_AnyCase ==
  /\ script = "cleanup_aws" /\ pc = "confirm"
  /\ \E r \in Replies :
       /\ reply' = r
       /\ IF r \notin {"YES", "yes"}
            THEN /\ out' = Say("error", "Cleanup cancelled by user")
                 /\ Exit(1)
            ELSE /\ out' = Say("info", "Starting complete AWS cleanup")
                 /\ Goto("precheck")
  /\ Did("confirm")
  /\ UNCHANGED <<calls, cloud>> /\ Env /\ NoSynth

CleanupAws_confirm ==
  /\ script = "cleanup_aws" /\ pc = "confirm"
  /\ \E r \in Replies :
       /\ reply' = r
       /\ IF r # "YES"
            THEN /\ out' = Say("error", "Cleanup cancelled by user")
                 /\ Exit(1)
            ELSE /\ out' = Say("info", "Starting complete AWS cleanup")
                 /\ Goto("precheck")
  /\ Did("confirm")
  /\ UNCHANGED <<calls, cloud>> /\ Env /\ NoSynth

\* cdk.json and .secrets must be present
CleanupAws_precheck ==
  /\ script = "cleanup_aws" /\ pc = "precheck"
  /\ \E present \in BOOLEAN :
       IF present
         THEN out' = out /\ Goto("cdk")
         ELSE out' = Say("error", "file not found") /\ Exit(1)
  /\ Did("precheck")
  /\ UNCHANGED <<reply, calls, cloud>> /\ Env /\ NoSynth

\* if cdk list; then cdk destroy --all --force; fi
CleanupAws_cdk ==
  /\ script = "cleanup_aws" /\ pc = "cdk"
  /\ \E listed \in BOOLEAN, ok \in BOOLEAN :
       /\ ok => credsOk
       /\ IF ~listed
            THEN /\ calls' = calls /\ cloud' = cloud
                 /\ out' = Say("info", "No CDK stacks found or CDK not accessible")
                 /\ Goto("ecr_backend")
            ELSE /\ calls' = Call("delete", "infra", ok)
                 /\ IF ok
                      THEN /\ cloud' = StackDestroyed(cloud, "infra")
                           /\ out' = Say("success", "CDK stacks destroyed successfully")
                           /\ Goto("ecr_backend")
                      ELSE /\ cloud' = cloud /\ out' = out
                           /\ Exit(1)
  /\ Did("cdk")
  /\ UNCHANGED reply /\ Env /\ NoSynth

\* if aws ecr describe-repositories; then aws ecr delete-repository --force; fi
CleanupAws_ecr(repo, next) ==
  /\ script = "cleanup_aws" /\ pc = repo
  /\ LET found == credsOk /\ Exists(repo)
         seen  == Call("describe", repo, found)
     IN  IF ~found
           THEN /\ calls' = seen /\ cloud' = cloud
                /\ out' = Say("info", "repository not found")
                /\ Goto(next)
           ELSE \E ok \in BOOLEAN :
                  /\ calls' = Append(seen, [op |-> "delete", target |-> repo, ok |-> ok])
                  /\ IF ok
                       THEN /\ cloud' = Removed(cloud, repo)
                            /\ out' = Say("success", "repository deleted")
                            /\ Goto(next)
                       ELSE /\ cloud' = cloud /\ out' = out
                            /\ Exit(1)
  /\ Did(repo)
  /\ UNCHANGED reply /\ Env /\ NoSynth

\* if aws eks list-clusters | grep -q iagent; then aws eks delete-cluster; fi
CleanupAws_eks ==
  /\ script = "cleanup_aws" /\ pc = "eks"
  /\ LET found == credsOk /\ Exists("cluster")
         seen  == Call("describe", "cluster", found)
     IN  IF ~found
           THEN /\ calls' = seen /\ cloud' = cloud
                /\ out' = Say("success", "AWS cleanup completed")
                /\ Exit(0)
           ELSE \E ok \in BOOLEAN :
                  /\ calls' = Append(Append(seen, [op |-> "describe", target |-> "cluster", ok |-> TRUE]),
                                     [op |-> "delete", target |-> "cluster", ok |-> ok])
                  /\ IF ok
                       THEN /\ cloud' = Removed(cloud, "cluster")
                            /\ out' = Say("success", "AWS cleanup completed")
                            /\ Exit(0)
                       ELSE /\ cloud' = cloud /\ out' = out
                            /\ Exit(1)
  /\ Did("eks")
  /\ UNCHANGED reply /\ Env /\ NoSynth

CleanupAws ==
  \/ CleanupAws_confirm
  \/ CleanupAws_precheck
  \/ CleanupAws_cdk
  \/ CleanupAws_ecr("ecr_backend", "ecr_frontend")
  \/ CleanupAws_ecr("ecr_frontend", "eks")
  \/ CleanupAws_eks

----------------------------------------------------------------------------
(* scripts/deploy-fargate-direct.sh, the project cleanup script (set -e) *)

\* AWS_ACCESS_KEY_ID and AWS_SECRET_ACCESS_KEY must be set
DestroyAll_creds ==
  /\ script = "destroy_all" /\ pc = "creds"
  /\ \E present \in BOOLEAN :
       /\ credsOk => present
       /\ IF present
            THEN out' = out /\ Goto("confirm")
            ELSE out' = Say("error", "AWS credentials not found") /\ Exit(1)
  /\ Did("creds")
  /\ UNCHANGED <<reply, calls, cloud>> /\ Env /\ NoSynth

DestroyAll_confirm ==
  /\ script = "destroy_all" /\ pc = "confirm"
  /\ \E r \in Replies :
       /\ reply' = r
       /\ IF r # "yes"
            THEN /\ out' = Say("error", "Cleanup cancelled.")
                 /\ Exit(0)
            ELSE /\ out' = Say("info", "Starting cleanup process")
                 /\ Goto("k8s")
  /\ Did("confirm")
  /\ UNCHANGED <<calls, cloud>> /\ Env /\ NoSynth

\* Step 1: kubectl delete -f apps/backend/k8s/ || echo
DestroyAll_k8s ==
  /\ script = "destroy_all" /\ pc = "k8s"
  /\ IF ~Has("kubectl")
       THEN /\ calls' = calls /\ cloud' = cloud
            /\ out' = Say("warning", "kubectl not available, skipping Kubernetes cleanup")
       ELSE \E ok \in BOOLEAN :
              /\ ok => KubectlWorks
              /\ calls' = Append(Call("describe", "cluster", credsOk /\ Exists("cluster")),
                                 [op |-> "delete", target |-> "k8s", ok |-> ok])
              /\ cloud' = IF ok THEN Removed(cloud, "k8s") ELSE cloud
              /\ out' = IF ok THEN out
                              ELSE Say("warning", "No Kubernetes resources to delete")
  /\ Goto("cdk")
  /\ Did("k8s")
  /\ UNCHANGED reply /\ Env /\ NoSynth

\* Step 2: npx cdk destroy --all --force
DestroyAll_cdk ==
  /\ script = "destroy_all" /\ pc = "cdk"
  /\ \E ok \in BOOLEAN :
       /\ ok => credsOk
       /\ calls' = Call("delete", "infra", ok)
       /\ IF ok
            THEN cloud' = StackDestroyed(cloud, "infra") /\ Goto("ecr")
            ELSE cloud' = cloud /\ Exit(1)
  /\ Did("cdk")
  /\ UNCHANGED <<reply, out>> /\ Env /\ NoSynth

\* Step 3: aws ecr delete-repository --force || echo, for both repositories
DestroyAll_ecr ==
  /\ script = "destroy_all" /\ pc = "ecr"
  /\ \E okB \in BOOLEAN, okF \in BOOLEAN :
       /\ okB => credsOk /\ Exists("ecr_backend")
       /\ okF => credsOk /\ Exists("ecr_frontend")
       /\ calls' = Append(Call("delete", "ecr_backend", okB),
                          [op |-> "delete", target |-> "ecr_frontend", ok |-> okF])
       /\ cloud' = [cloud EXCEPT !["ecr_backend"]  = IF okB THEN "absent" ELSE @,
                                 !["ecr_frontend"] = IF okF THEN "absent" ELSE @]
       /\ out' = IF okB /\ okF THEN out
                 ELSE Say("warning", "ECR repository not found")
  /\ Goto("eks")
  /\ Did("ecr")
  /\ UNCHANGED reply /\ Env /\ NoSynth

\* aws eks delete-cluster || echo; if describe-cluster; then aws eks wait cluster-deleted; fi
DestroyAll_eks ==
  /\ script = "destroy_all" /\ pc = "eks"
  /\ \E ok \in BOOLEAN, waited \in BOOLEAN :
       /\ ok => credsOk /\ Exists("cluster")
       /\ LET deleting == credsOk /\ Exists("cluster")
              c1 == Call("delete", "cluster", ok)
              c2 == Append(c1, [op |-> "describe", target |-> "cluster", ok |-> deleting])
          IN  IF ~deleting
                THEN /\ calls' = c2 /\ cloud' = cloud
                     /\ out' = Say("warning", "EKS cluster not found")
                     /\ Goto("vpc")
                ELSE /\ calls' = Append(c2, [op |-> "wait", target |-> "cluster", ok |-> waited])
                     /\ waited => ok
                     /\ out' = out
                     /\ IF waited
                          THEN cloud' = Removed(cloud, "cluster") /\ Goto("vpc")
                          ELSE /\ cloud' = [cloud EXCEPT !["cluster"] =
                                              IF ok THEN "inProgress" ELSE @]
                               /\ Exit(1)
  /\ Did("eks")
  /\ UNCHANGED reply /\ Env /\ NoSynth

\* for VPC_ID in $(aws ec2 describe-vpcs ...); do aws ec2 delete-vpc || echo; done
DestroyAll_vpc ==
  /\ script = "destroy_all" /\ pc = "vpc"
  /\ LET found == credsOk /\ Exists("vpc")
         seen  == Call("describe", "vpc", found)
     IN  IF ~found
           THEN calls' = seen /\ cloud' = cloud /\ out' = out
           ELSE \E ok \in BOOLEAN :
                  /\ ok => ~Exists("cluster")
                  /\ calls' = Append(seen, [op |-> "delete", target |-> "vpc", ok |-> ok])
                  /\ cloud' = IF ok THEN Removed(cloud, "vpc") ELSE cloud
                  /\ out' = IF ok THEN out ELSE Say("warning", "Could not delete VPC")
  /\ Goto("verify")
  /\ Did("vpc")
  /\ UNCHANGED reply /\ Env /\ NoSynth

\* Step 4: count what is left, then print "Cleanup Complete!"
DestroyAll_verify ==
  /\ script = "destroy_all" /\ pc = "verify"
  /\ calls' = calls \o << [op |-> "describe", target |-> "ecr_backend", ok |-> credsOk],
                          [op |-> "describe", target |-> "cluster", ok |-> credsOk],
                          [op |-> "describe", target |-> "infra", ok |-> credsOk] >>
  /\ out' = Say("success", "Cleanup Complete! All AWS resources have been destroyed")
  /\ Exit(0)
  /\ Did("verify")
  /\ UNCHANGED <<reply, cloud>> /\ Env /\ NoSynth

DestroyAll ==
  \/ DestroyAll_creds
  \/ DestroyAll_confirm
  \/ DestroyAll_k8s
  \/ DestroyAll_cdk
  \/ DestroyAll_ecr
  \/ DestroyAll_eks
  \/ DestroyAll_vpc
  \/ DestroyAll_verify

----------------------------------------------------------------------------
(* scripts/deploy-fargate-direct.sh, the project setup script (set -e):    *)
(* the clean and stop commands                                             *)

FargateClean_confirm ==
  /\ script = "fargate_clean" /\ pc = "confirm"
  /\ \E r \in Replies :
       /\ reply' = r
       /\ IF r = "yes"
            THEN out' = Say("warning", "This will permanently delete ALL AWS resources!")
                 /\ Goto("clean_all")
            ELSE out' = Say("info", "Cleanup cancelled")
                 /\ Exit(0)
  /\ Did("confirm")
  /\ UNCHANGED <<calls, cloud>> /\ Env /\ NoSynth

\* every command is `aws ... && print_success || print_warning`
clean_all ==
  /\ script = "fargate_clean" /\ pc = "clean_all"
  /\ \E okB \in BOOLEAN, okF \in BOOLEAN, okC \in BOOLEAN, okM \in BOOLEAN, okI \in BOOLEAN :
       /\ okB => credsOk /\ Exists("ecr_backend")
       /\ okF => credsOk /\ Exists("ecr_frontend")
       /\ okC => credsOk /\ Exists("cluster")
       /\ okM => credsOk
       /\ okI => credsOk
       /\ calls' = calls \o
            << [op |-> "describe", target |-> "identity", ok |-> credsOk],
               [op |-> "delete", target |-> "ecr_backend", ok |-> okB],
               [op |-> "delete", target |-> "ecr_frontend", ok |-> okF],
               [op |-> "delete", target |-> "cluster", ok |-> okC],
               [op |-> "delete", target |-> "monitoring", ok |-> okM],
               [op |-> "delete", target |-> "infra", ok |-> okI] >>
       /\ LET c1 == IF okB THEN Removed(cloud, "ecr_backend") ELSE cloud
              c2 == IF okF THEN Removed(c1, "ecr_frontend") ELSE c1
              c3 == IF okC THEN Removed(c2, "cluster") ELSE c2
              c4 == IF okM THEN Removed(c3, "monitoring") ELSE c3
          IN  cloud' = IF okI THEN StackDestroyed(c4, "infra") ELSE c4
       /\ out' = IF okB /\ okF /\ okC /\ okM /\ okI
                   THEN Say("success", "Cleanup completed")
                   ELSE Append(Say("warning", "Failed to delete"),
                               [sev |-> "success", msg |-> "Cleanup completed"])
  /\ Exit(0)
  /\ Did("clean_all")
  /\ UNCHANGED reply /\ Env /\ NoSynth

\* npx nx run monitoring:destroy || print_warning; npx nx run infrastructure:destroy || print_warning
destroy_infrastructure ==
  /\ script = "fargate_stop" /\ pc = "destroy_infrastructure"
  /\ \E okM \in BOOLEAN, okI \in BOOLEAN :
       /\ okM => credsOk
       /\ okI => credsOk
       /\ calls' = Append(Call("delete", "monitoring", okM),
                          [op |-> "delete", target |-> "infra", ok |-> okI])
       /\ LET c1 == IF okM THEN Removed(cloud, "monitoring") ELSE cloud
          IN  cloud' = IF okI THEN StackDestroyed(c1, "infra") ELSE c1
       /\ out' = IF okM /\ okI
                   THEN Say("success", "Infrastructure stopped successfully!")
                   ELSE Append(Say("warning", "Failed to destroy stack"),
                               [sev |-> "success", msg |-> "Infrastructure stopped successfully!"])
  /\ Exit(0)
  /\ Did("destroy_infrastructure")
  /\ UNCHANGED reply /\ Env /\ NoSynth

FargateSetup_teardown ==
  \/ FargateClean_confirm
  \/ clean_all
  \/ destroy_infrastructure

----------------------------------------------------------------------------
(* deploy.ps1 destroy.  A native command that exits non-zero does not      *)
(* raise a PowerShell exception ("fail"); only a command that cannot be    *)
(* started does ("throw"), and only then does the catch block run.         *)

NativeResults == {"ok", "fail", "throw"}

PsSev(res) == IF res = "throw" THEN "warning" ELSE "success"

Destroy_Infrastructure_StopOnFailure ==
  /\ script = "ps1_destroy" /\ pc = "Destroy-Infrastructure"
  /\ \E okM \in BOOLEAN :
       /\ okM => credsOk
       /\ calls' = IF okM
                     THEN Append(Call("delete", "monitoring", TRUE),
                                 [op |-> "delete", target |-> "infra", ok |-> TRUE])
                     ELSE Call("delete", "monitoring", FALSE)
       /\ cloud' = IF okM THEN StackDestroyed(Removed(cloud, "monitoring"), "infra")
                    ELSE cloud
       /\ out' = IF okM THEN Say("success", "Infrastructure destroyed successfully!")
                  ELSE Say("warning", "monitoring stack")
       /\ Exit(IF okM THEN 0 ELSE 1)
  /\ Did("Destroy-Infrastructure")
  /\ UNCHANGED reply /\ Env /\ NoSynth

\* both steps run the same command line, `npx cdk destroy --all ...`: it can
\* be started for both or for neither
Destroy_Infrastructure ==
  /\ script = "ps1_destroy" /\ pc = "Destroy-Infrastructure"
  /\ \E resM \in NativeResults, resI \in NativeResults :
       /\ resM = "throw" <=> resI = "throw"
       /\ resM = "ok" => credsOk
       /\ resI = "ok" => credsOk
       /\ calls' = (IF resM = "throw" THEN calls
                    ELSE Call("delete", "monitoring", resM = "ok"))
                   \o (IF resI = "throw" THEN << >>
                       ELSE << [op |-> "delete", target |-> "infra", ok |-> resI = "ok"] >>)
       /\ LET c1 == IF resM = "ok" THEN Removed(cloud, "monitoring") ELSE cloud
          IN  cloud' = IF resI = "ok" THEN StackDestroyed(c1, "infra") ELSE c1
       /\ out' = out \o << [sev |-> PsSev(resM), msg |-> "monitoring stack"],
                           [sev |-> PsSev(resI), msg |-> "infrastructure stack"],
                           [sev |-> "success", msg |-> "Infrastructure destroyed successfully!"] >>
  /\ Exit(0)
  /\ Did("Destroy-Infrastructure")
  /\ UNCHANGED reply /\ Env /\ NoSynth

----------------------------------------------------------------------------
(* Makefile, target cleanup: "Destroy Fargate infrastructure (confirm off)" *)

Makefile_cleanup ==
  /\ script = "make_cleanup" /\ pc = "cleanup"
  /\ \E ok \in BOOLEAN :
       /\ ok => credsOk
       /\ calls' = Call("delete", "fargate", ok)
       /\ out' = IF ok THEN Say("success", "Cleanup complete") ELSE out
       /\ Exit(IF ok THEN 0 ELSE 2)
  /\ Did("cleanup")
  /\ UNCHANGED <<reply, cloud>> /\ Env /\ NoSynth

----------------------------------------------------------------------------
(* AWS-SETUP.md, teardown-infrastructure.sh (set -e) *)

\* .env.aws must be present
Teardown_env ==
  /\ script = "teardown_doc" /\ pc = "env"
  /\ \E present \in BOOLEAN :
       IF present
         THEN out' = out /\ Goto("confirm_teardown")
         ELSE out' = Say("error", ".env.aws not found") /\ Exit(1)
  /\ Did("env")
  /\ UNCHANGED <<reply, calls, cloud>> /\ Env /\ NoSynth

confirm_teardown ==
  /\ script = "teardown_doc" /\ pc = "confirm_teardown"
  /\ \E r \in Replies :
       /\ reply' = r
       /\ IF ~(r = "DELETE")
            THEN out' = Say("info", "Teardown cancelled") /\ Exit(0)
            ELSE out' = out /\ Goto("cleanup_kubernetes")
  /\ Did("confirm_teardown")
  /\ UNCHANGED <<calls, cloud>> /\ Env /\ NoSynth

\* kubectl delete namespace --timeout=300s || { forced delete }, then the
\* cluster-wide resources
cleanup_kubernetes ==
  /\ script = "teardown_doc" /\ pc = "cleanup_kubernetes"
  /\ IF ~KubectlWorks
       THEN /\ calls' = calls /\ cloud' = cloud
            /\ out' = Say("warning", "Cluster not accessible, skipping Kubernetes cleanup")
            /\ Goto("cleanup_ecr")
       ELSE \E first \in BOOLEAN, forced \in BOOLEAN, rest \in BOOLEAN :
              /\ first => forced
              /\ LET c1 == Call("delete", "k8s", first)
                     c2 == IF first THEN c1
                           ELSE Append(c1, [op |-> "delete", target |-> "k8s", ok |-> forced])
                 IN  IF ~forced
                       THEN /\ calls' = c2 /\ cloud' = cloud
                            /\ out' = Say("warning", "Timeout deleting namespace, forcing deletion")
                            /\ Exit(1)
                       ELSE /\ calls' = Append(c2, [op |-> "delete", target |-> "k8s", ok |-> rest])
                            /\ cloud' = Removed(cloud, "k8s")
                            /\ out' = IF first THEN out
                                      ELSE Say("warning", "Timeout deleting namespace, forcing deletion")
                            /\ IF rest THEN Goto("cleanup_ecr") ELSE Exit(1)
  /\ Did("cleanup_kubernetes")
  /\ UNCHANGED reply /\ Env /\ NoSynth

\* one repository of the loop: describe, then delete-repository --force || warning
EcrCleaned(st, repo, ok) ==
  LET found == credsOk /\ st.cloud[repo] # "absent"
      seen  == Append(st.calls, [op |-> "describe", target |-> repo, ok |-> found])
  IN  IF ~found
        THEN [calls |-> seen, cloud |-> st.cloud, warned |-> st.warned]
        ELSE [calls  |-> Append(seen, [op |-> "delete", target |-> repo, ok |-> ok]),
              cloud  |-> IF ok THEN Removed(st.cloud, repo) ELSE st.cloud,
              warned |-> st.warned \/ ~ok]

cleanup_ecr ==
  /\ script = "teardown_doc" /\ pc = "cleanup_ecr"
  /\ \E okB \in BOOLEAN, okF \in BOOLEAN :
       LET s0 == [calls |-> calls, cloud |-> cloud, warned |-> FALSE]
           s1 == EcrCleaned(s0, "ecr_backend", okB)
           s2 == EcrCleaned(s1, "ecr_frontend", okF)
       IN  /\ okB => Exists("ecr_backend")
           /\ okF => Exists("ecr_frontend")
           /\ calls' = s2.calls
           /\ cloud' = s2.cloud
           /\ out' = IF s2.warned
                       THEN Say("warning", "Failed to delete repository, continuing")
                       ELSE out
  /\ Goto("cleanup_cloudwatch")
  /\ Did("cleanup_ecr")
  /\ UNCHANGED reply /\ Env /\ NoSynth

\* the log group deleted without the `|| print_warning` fallback: under set -e
\* a failed delete-log-group ends the script
cleanup_cloudwatch_NoFallback ==
  /\ script = "teardown_doc" /\ pc = "cleanup_cloudwatch"
  /\ IF ~credsOk \/ ~Exists("logs")
       THEN /\ calls' = Call("describe", "logs", credsOk)
            /\ cloud' = cloud /\ out' = out
            /\ IF credsOk THEN Goto("destroy_cdk_stack") ELSE Exit(1)
       ELSE \E ok \in BOOLEAN :
              /\ calls' = Append(Call("describe", "logs", TRUE),
                                 [op |-> "delete", target |-> "logs", ok |-> ok])
              /\ cloud' = IF ok THEN Removed(cloud, "logs") ELSE cloud
              /\ out' = out
              /\ IF ok THEN Goto("destroy_cdk_stack") ELSE Exit(1)
  /\ Did("cleanup_cloudwatch")
  /\ UNCHANGED reply /\ Env /\ NoSynth

\* LOG_GROUPS=$(aws logs describe-log-groups); aws logs delete-log-group || warning
cleanup_cloudwatch ==
  /\ script = "teardown_doc" /\ pc = "cleanup_cloudwatch"
  /\ IF ~credsOk
       THEN /\ calls' = Call("describe", "logs", FALSE)
            /\ cloud' = cloud /\ out' = out
            /\ Exit(1)
       ELSE /\ IF ~Exists("logs")
                 THEN /\ calls' = Append(Call("describe", "logs", TRUE),
                                         [op |-> "describe", target |-> "alarms", ok |-> TRUE])
                      /\ cloud' = cloud /\ out' = out
                 ELSE \E ok \in BOOLEAN :
                        /\ calls' = Call("describe", "logs", TRUE) \o
                             << [op |-> "delete", target |-> "logs", ok |-> ok],
                                [op |-> "describe", target |-> "alarms", ok |-> TRUE] >>
                        /\ cloud' = IF ok THEN Removed(cloud, "logs") ELSE cloud
                        /\ out' = IF ok THEN out
                                  ELSE Say("warning", "Failed to delete log group, continuing")
            /\ Goto("destroy_cdk_stack")
  /\ Did("cleanup_cloudwatch")
  /\ UNCHANGED reply /\ Env /\ NoSynth

\* cdk destroy --force || { aws cloudformation delete-stack || warning }
destroy_cdk_stack ==
  /\ script = "teardown_doc" /\ pc = "destroy_cdk_stack"
  /\ \E listed \in BOOLEAN, ok \in BOOLEAN, ok2 \in BOOLEAN :
       /\ ok => credsOk
       /\ ok2 => credsOk
       /\ IF ~listed
            THEN /\ calls' = calls /\ cloud' = cloud
                 /\ out' = Say("warning", "CDK stack not found, skipping")
            ELSE IF ok
              THEN /\ calls' = Call("delete", "infra", TRUE)
                   /\ cloud' = StackDestroyed(cloud, "infra")
                   /\ out' = out
              ELSE /\ calls' = Append(Call("delete", "infra", FALSE),
                                      [op |-> "delete", target |-> "infra", ok |-> ok2])
                   /\ cloud' = IF ok2 THEN StackDestroyed(cloud, "infra") ELSE cloud
                   /\ out' = IF ok2 THEN Say("error", "CDK destroy failed, trying alternative cleanup")
                             ELSE Append(Say("error", "CDK destroy failed, trying alternative cleanup"),
                                         [sev |-> "warning", msg |-> "manual cleanup may be required"])
  /\ Goto("verify_cleanup")
  /\ Did("destroy_cdk_stack")
  /\ UNCHANGED reply /\ Env /\ NoSynth

\* CLUSTERS=$(aws eks list-clusters); REPOS=...; STACKS=...; then the summary
verify_cleanup ==
  /\ script = "teardown_doc" /\ pc = "verify_cleanup"
  /\ IF ~credsOk
       THEN /\ calls' = Call("describe", "cluster", FALSE)
            /\ out' = out
            /\ Exit(1)
       ELSE /\ calls' = calls \o
                 << [op |-> "describe", target |-> "cluster", ok |-> TRUE],
                    [op |-> "describe", target |-> "ecr_backend", ok |-> TRUE],
                    [op |-> "describe", target |-> "infra", ok |-> TRUE] >>
            /\ out' = IF \E r \in {"cluster", "ecr_backend", "ecr_frontend"} : Exists(r)
                        THEN Append(Say("warning", "Remaining resources found"),
                                    [sev |-> "info", msg |-> "Teardown completed successfully!"])
                        ELSE Say("info", "Teardown completed successfully!")
            /\ Exit(0)
  /\ Did("verify_cleanup")
  /\ UNCHANGED <<reply, cloud>> /\ Env /\ NoSynth

TeardownDoc ==
  \/ Teardown_env
  \/ confirm_teardown
  \/ cleanup_kubernetes
  \/ cleanup_ecr
  \/ cleanup_cloudwatch
  \/ destroy_cdk_stack
  \/ verify_cleanup

Teardown ==
  \/ CleanupAws
  \/ DestroyAll
  \/ FargateSetup_teardown
  \/ Destroy_Infrastructure
  \/ Makefile_cleanup
  \/ TeardownDoc

----------------------------------------------------------------------------
(* Deploy runs: common parts *)

DeployScripts == {"ps1_deploy", "simple_start", "infra_sh", "full_deploy",
                  "fargate_start"}

\* NODE_GROUP_MIN_SIZE / MAX_SIZE / DESIRED_SIZE in the environment of the run
DeployEnvs == {[min |-> Unset, max |-> Unset, desired |-> Unset],
               [min |-> 2, max |-> 1, desired |-> 1],
               [min |-> 1, max |-> 3, desired |-> 0]}

\* a fresh account, a bootstrapped account, an environment deployed earlier
\* without its monitoring stack, an environment deployed earlier in full
DeployClouds == {CloudOf(0, FALSE, FALSE, FALSE, FALSE),
                 CloudOf(0, FALSE, FALSE, FALSE, TRUE),
                 CloudOf(3, TRUE, FALSE, FALSE, TRUE),
                 CloudOf(3, TRUE, TRUE, TRUE, TRUE)}

DeployEntry(sc) ==
  CASE sc = "ps1_deploy"    -> "Test-Prerequisites"
    [] sc = "simple_start"  -> "Test-Prerequisites"
    [] sc = "infra_sh"      -> "env"
    [] sc = "full_deploy"   -> "check_prerequisites"
    [] sc = "fargate_start" -> "check_prerequisites"

InitDeploy ==
  /\ script \in DeployScripts
  /\ pc = DeployEntry(script)
  /\ reply = "<none>"
  /\ calls = << >>
  /\ cloud \in DeployClouds
  /\ out = << >>
  /\ trace = << >>
  /\ exitCode = -1
  /\ missing \in Tools \cup {"none"}
  /\ credsOk \in BOOLEAN
  /\ cfg \in DeployEnvs
  /\ stackKind = "CostOptimized"
  /\ built = NotBuilt
  /\ orphans = {}
  /\ flags = DefaultFlags
  /\ plan = << >>
  /\ again = << >>
  /\ shell = << >>

At(sc, l) == script = sc /\ pc = l

\* a step that sends nothing to the collaborator
Local == UNCHANGED <<reply, calls, cloud>> /\ Env /\ NoSynth

Bootstrapped == cloud["bootstrap"] = "active"

\* how a deployment of the infrastructure stack can end
DeployOutcomes == {"ok", "nodes_pending", "cluster_failed", "rejected"}

Possible(o) ==
  CASE o = "rejected"       -> ~credsOk \/ ~Bootstrapped
    [] o = "cluster_failed" -> credsOk /\ Bootstrapped /\ cloud["cluster"] # "active"
    [] o = "nodes_pending"  -> credsOk /\ Bootstrapped /\ cloud["nodes"] # "active"
    [] OTHER                -> credsOk /\ Bootstrapped

\* CloudFormation creates the node group only after the cluster
\* (rawNodeGroup.addDependency(rawEksCluster)); a failed create rolls back
Deployed(c, o) ==
  [r \in Resources |->
     IF o = "rejected" THEN c[r]
     ELSE IF o = "cluster_failed"
       THEN (IF r = "cluster" THEN "failed" ELSE c[r])
     ELSE IF r \in {"vpc", "ecr_backend", "ecr_frontend", "cluster"} THEN "active"
     ELSE IF r = "nodes"
       THEN (IF o = "nodes_pending" THEN "inProgress" ELSE "active")
     ELSE c[r]]

\* cdk deploy of the infrastructure app: main.ts is synthesised first, and
\* only a synthesised app is sent to the collaborator
CdkDeploy(o, runnable) ==
  LET app == Constructor(stackKind, main_ts(cfg))
      ok  == o \in {"ok", "nodes_pending"}
  IN  IF ~runnable
        THEN [built |-> built, calls |-> calls, cloud |-> cloud, ok |-> FALSE]
      ELSE IF app.err = "ValidationError"
        THEN [built |-> app, calls |-> calls, cloud |-> cloud, ok |-> FALSE]
      ELSE [built |-> app,
            calls |-> Call("deploy", "infra", ok),
            cloud |-> Deployed(cloud, o),
            ok    |-> ok]

CdkDeployMonitoring_Rollback(ok) ==
  IF ok
    THEN [calls |-> Call("deploy", "monitoring", TRUE),
          cloud |-> [cloud EXCEPT !["monitoring"] = "active", !["logs"] = "active"]]
    ELSE [calls |-> Append(Call("deploy", "monitoring", FALSE),
                           [op |-> "delete", target |-> "infra", ok |-> TRUE]),
          cloud |-> StackDestroyed(cloud, "infra")]

CdkDeployMonitoring(ok) ==
  [calls |-> Call("deploy", "monitoring", ok),
   cloud |-> IF ok THEN [cloud EXCEPT !["monitoring"] = "active", !["logs"] = "active"]
             ELSE cloud]

StatusCalls_Repairing ==
  calls \o << [op |-> "describe", target |-> "cluster", ok |-> credsOk /\ Exists("cluster")],
              [op |-> "deploy", target |-> "infra", ok |-> credsOk] >>

StatusCalls ==
  calls \o << [op |-> "describe", target |-> "cluster", ok |-> credsOk /\ Exists("cluster")],
              [op |-> "describe", target |-> "ecr_backend", ok |-> credsOk /\ Exists("ecr_backend")],
              [op |-> "describe", target |-> "ecr_frontend", ok |-> credsOk /\ Exists("ecr_frontend")] >>

CheckTools(required, next) ==
  IF missing \in required
    THEN out' = Say("error", "Missing required tools") /\ Exit(1)
    ELSE out' = Say("success", "All prerequisites are installed") /\ Goto(next)

----------------------------------------------------------------------------
(* deploy.ps1 deploy.  No $ErrorActionPreference is set: a native command  *)
(* that exits non-zero raises nothing, so only $LASTEXITCODE tells.        *)

Ps1_TestPrerequisites ==
  /\ At("ps1_deploy", "Test-Prerequisites")
  /\ CheckTools({"node", "npm", "aws"}, "Install-Dependencies")
  /\ Did("Test-Prerequisites")
  /\ Local

Ps1_InstallDependencies ==
  /\ At("ps1_deploy", "Install-Dependencies")
  /\ out' = Say("success", "Dependencies installed")
  /\ Goto("Start-CdkBootstrap")
  /\ Did("Install-Dependencies")
  /\ Local

\* $accountId = Test-AwsCredentials; try { describe-stacks CDKToolkit;
\* "already bootstrapped" } catch { npx cdk bootstrap }
Ps1_StartCdkBootstrap ==
  /\ At("ps1_deploy", "Start-CdkBootstrap")
  /\ trace' = trace \o <<"Start-CdkBootstrap", "Test-AwsCredentials">>
  /\ IF ~credsOk
       THEN /\ calls' = Call("describe", "identity", FALSE)
            /\ out' = Say("error", "AWS credentials not configured or invalid")
            /\ Exit(1)
       ELSE /\ calls' = Append(Call("describe", "identity", TRUE),
                               [op |-> "describe", target |-> "bootstrap", ok |-> Bootstrapped])
            /\ out' = Say("info", "CDK already bootstrapped, skipping...")
            /\ Goto("Deploy-Infrastructure")
  /\ UNCHANGED <<reply, cloud>> /\ Env /\ NoSynth

Ps1_DeployInfrastructure ==
  /\ At("ps1_deploy", "Deploy-Infrastructure")
  /\ \E buildOk \in BOOLEAN, o \in DeployOutcomes :
       /\ Possible(o)
       /\ IF ~buildOk
            THEN /\ built' = built /\ calls' = calls /\ cloud' = cloud
                 /\ out' = Say("error", "Infrastructure build failed")
                 /\ Exit(1)
            ELSE LET d == CdkDeploy(o, TRUE)
                 IN  /\ built' = d.built /\ calls' = d.calls /\ cloud' = d.cloud
                     /\ IF d.ok
                          THEN /\ out' = Say("success", "Infrastructure deployed successfully")
                               /\ Goto("Deploy-Monitoring")
                          ELSE /\ out' = Say("error", "Infrastructure deployment failed")
                               /\ Exit(1)
  /\ Did("Deploy-Infrastructure")
  /\ UNCHANGED <<reply, cfg>> /\ Env

Ps1_DeployMonitoring ==
  /\ At("ps1_deploy", "Deploy-Monitoring")
  /\ \E buildOk \in BOOLEAN, ok \in BOOLEAN :
       /\ ok => credsOk /\ Bootstrapped
       /\ IF ~buildOk
            THEN /\ calls' = calls /\ cloud' = cloud
                 /\ out' = Say("error", "Monitoring build failed")
                 /\ Exit(1)
            ELSE LET d == CdkDeployMonitoring(ok)
                 IN  /\ calls' = d.calls /\ cloud' = d.cloud
                     /\ IF ok
                          THEN /\ out' = Say("success", "Monitoring stack deployed successfully")
                               /\ Goto("Invoke-Tests")
                          ELSE /\ out' = Say("error", "Monitoring deployment failed")
                               /\ Exit(1)
  /\ Did("Deploy-Monitoring")
  /\ UNCHANGED reply /\ Env /\ NoSynth

Ps1_InvokeTests ==
  /\ At("ps1_deploy", "Invoke-Tests")
  /\ \E ok \in BOOLEAN :
       out' = IF ok THEN Say("success", "Tests completed successfully")
              ELSE Say("warning", "Some tests failed, but continuing with deployment")
  /\ Goto("Build-Applications")
  /\ Did("Invoke-Tests")
  /\ Local

Ps1_BuildApplications ==
  /\ At("ps1_deploy", "Build-Applications")
  /\ \E ok \in BOOLEAN :
       out' = IF ok THEN Say("success", "Applications built successfully")
              ELSE Say("warning", "Some application builds failed, but continuing")
  /\ Goto("Show-Status")
  /\ Did("Build-Applications")
  /\ Local

\* try { aws eks describe-cluster | Out-Null; Write-Success } catch { Write-Error }
Ps1_ShowStatus ==
  /\ script \in {"ps1_deploy", "ps1_status"} /\ pc = "Show-Status"
  /\ calls' = StatusCalls
  /\ out' = IF script = "ps1_status"
              THEN Say("success", "EKS Cluster: Running")
              ELSE Append(Say("success", "EKS Cluster: Running"),
                          [sev |-> "success",
                           msg |-> "Complete infrastructure deployment finished!"])
  /\ Exit(0)
  /\ Did("Show-Status")
  /\ UNCHANGED <<reply, cloud>> /\ Env /\ NoSynth

Ps1Deploy ==
  \/ Ps1_TestPrerequisites
  \/ Ps1_InstallDependencies
  \/ Ps1_StartCdkBootstrap
  \/ Ps1_DeployInfrastructure
  \/ Ps1_DeployMonitoring
  \/ Ps1_InvokeTests
  \/ Ps1_BuildApplications
  \/ Ps1_ShowStatus

----------------------------------------------------------------------------
(* The "Simple iAgent DevOps Setup Script", start (second script of        *)
(* deploy-infrastructure.sh)                                               *)

Simple_TestPrerequisites ==
  /\ At("simple_start", "Test-Prerequisites")
  /\ CheckTools({"node", "npm", "aws"}, "Install-Dependencies")
  /\ Did("Test-Prerequisites")
  /\ Local

Simple_InstallDependencies ==
  /\ At("simple_start", "Install-Dependencies")
  /\ out' = Say("success", "Dependencies installed")
  /\ Goto("Start-CdkBootstrap")
  /\ Did("Install-Dependencies")
  /\ Local

Simple_StartCdkBootstrap ==
  /\ At("simple_start", "Start-CdkBootstrap")
  /\ trace' = trace \o <<"Start-CdkBootstrap", "Test-AwsCredentials">>
  /\ IF ~credsOk
       THEN /\ calls' = Call("describe", "identity", FALSE)
            /\ out' = Say("error", "AWS credentials not configured or invalid")
            /\ Exit(1)
       ELSE /\ calls' = Append(Call("describe", "identity", TRUE),
                               [op |-> "describe", target |-> "bootstrap", ok |-> Bootstrapped])
            /\ out' = Say("info", "CDK already bootstrapped, skipping...")
            /\ Goto("Deploy-Infrastructure")
  /\ UNCHANGED <<reply, cloud>> /\ Env /\ NoSynth

\* try { npx cdk deploy ...; Write-Success } catch { Write-Error } finally { Pop-Location }
Simple_DeployInfrastructure ==
  /\ At("simple_start", "Deploy-Infrastructure")
  /\ \E o \in DeployOutcomes :
       /\ Possible(o)
       /\ LET d == CdkDeploy(o, TRUE)
          IN  built' = d.built /\ calls' = d.calls /\ cloud' = d.cloud
  /\ out' = Say("success", "Infrastructure deployed successfully")
  /\ Goto("Deploy-Monitoring")
  /\ Did("Deploy-Infrastructure")
  /\ UNCHANGED <<reply, cfg>> /\ Env

Simple_DeployMonitoring ==
  /\ At("simple_start", "Deploy-Monitoring")
  /\ \E ok \in BOOLEAN :
       /\ ok => credsOk /\ Bootstrapped
       /\ LET d == CdkDeployMonitoring(ok)
          IN  calls' = d.calls /\ cloud' = d.cloud
  /\ out' = Say("success", "Monitoring stack deployed successfully")
  /\ Goto("Invoke-Tests")
  /\ Did("Deploy-Monitoring")
  /\ UNCHANGED reply /\ Env /\ NoSynth

Simple_InvokeTests ==
  /\ At("simple_start", "Invoke-Tests")
  /\ out' = Say("success", "Tests completed successfully")
  /\ Goto("Build-Applications")
  /\ Did("Invoke-Tests")
  /\ Local

Simple_BuildApplications ==
  /\ At("simple_start", "Build-Applications")
  /\ out' = Say("success", "Applications built successfully")
  /\ Goto("Show-Status")
  /\ Did("Build-Applications")
  /\ Local

Simple_ShowStatus ==
  /\ At("simple_start", "Show-Status")
  /\ calls' = StatusCalls
  /\ out' = Append(Say("success", "EKS Cluster: Running"),
                   [sev |-> "success", msg |-> "Infrastructure setup completed!"])
  /\ Exit(0)
  /\ Did("Show-Status")
  /\ UNCHANGED <<reply, cloud>> /\ Env /\ NoSynth

SimpleStart ==
  \/ Simple_TestPrerequisites
  \/ Simple_InstallDependencies
  \/ Simple_StartCdkBootstrap
  \/ Simple_DeployInfrastructure
  \/ Simple_DeployMonitoring
  \/ Simple_InvokeTests
  \/ Simple_BuildApplications
  \/ Simple_ShowStatus

----------------------------------------------------------------------------
(* deploy-infrastructure.sh (set -e), the cost-optimised one-command deploy *)

\* read -n 1 keeps the first character typed
FirstChar(r) ==
  CASE r = "YES"    -> "Y"
    [] r = "yes"    -> "y"
    [] r = "DELETE" -> "D"
    [] r = "no"     -> "n"
    [] OTHER        -> r

\* .env.aws must be present
InfraSh_env ==
  /\ At("infra_sh", "env")
  /\ \E present \in BOOLEAN :
       IF present
         THEN out' = out /\ Goto("check_costs")
         ELSE out' = Say("error", ".env.aws not found") /\ Exit(1)
  /\ Did("env")
  /\ Local

check_costs ==
  /\ At("infra_sh", "check_costs")
  /\ \E r \in Replies :
       /\ reply' = FirstChar(r)
       /\ IF FirstChar(r) \notin {"y", "Y"}
            THEN out' = Say("info", "Deployment cancelled") /\ Exit(0)
            ELSE out' = Say("warning", "COST ALERT") /\ Goto("deploy_infrastructure")
  /\ Did("check_costs")
  /\ UNCHANGED <<calls, cloud>> /\ Env /\ NoSynth

\* npm install; npm run build; cdk deploy --require-approval never
InfraSh_deploy_infrastructure ==
  /\ At("infra_sh", "deploy_infrastructure")
  /\ \E o \in DeployOutcomes :
       /\ Possible(o)
       /\ LET d == CdkDeploy(o, Has("node") /\ Has("npm") /\ Has("cdk"))
          IN  /\ built' = d.built /\ calls' = d.calls /\ cloud' = d.cloud
              /\ IF d.ok
                   THEN out' = Say("info", "Infrastructure deployed successfully!")
                        /\ Goto("configure_kubectl")
                   ELSE out' = out /\ Exit(1)
  /\ Did("deploy_infrastructure")
  /\ UNCHANGED <<reply, cfg>> /\ Env

\* aws eks update-kubeconfig; kubectl wait nodes --timeout=300s || warning
InfraSh_configure_kubectl ==
  /\ At("infra_sh", "configure_kubectl")
  /\ IF ~(Has("aws") /\ credsOk /\ cloud["cluster"] = "active")
       THEN /\ calls' = IF Has("aws") THEN Call("describe", "cluster", FALSE) ELSE calls
            /\ cloud' = cloud /\ out' = out
            /\ Exit(1)
       ELSE \E ready \in BOOLEAN :
              /\ ready => Has("kubectl") /\ cloud["nodes"] \in {"inProgress", "active"}
              /\ ~ready => ~Has("kubectl") \/ cloud["nodes"] # "active"
              /\ calls' = IF Has("kubectl")
                            THEN Append(Call("describe", "cluster", TRUE),
                                        [op |-> "wait", target |-> "nodes", ok |-> ready])
                            ELSE Call("describe", "cluster", TRUE)
              /\ cloud' = IF ready THEN [cloud EXCEPT !["nodes"] = "active"] ELSE cloud
              /\ out' = IF ready THEN Say("info", "kubectl configured successfully")
                        ELSE Append(Say("warning", "Cluster nodes not ready yet, but continuing..."),
                                    [sev |-> "info", msg |-> "kubectl configured successfully"])
              /\ Goto("deploy_kubernetes")
  /\ Did("configure_kubectl")
  /\ UNCHANGED reply /\ Env /\ NoSynth

\* kubectl create namespace | kubectl apply -f -; kubectl apply -f k8s/
deploy_kubernetes ==
  /\ At("infra_sh", "deploy_kubernetes")
  /\ IF ~Has("kubectl")
       THEN /\ calls' = calls /\ cloud' = cloud /\ out' = out
            /\ Exit(1)
       ELSE /\ calls' = Append(Call("apply", "k8s", TRUE),
                               [op |-> "apply", target |-> "k8s", ok |-> TRUE])
            /\ cloud' = [cloud EXCEPT !["k8s"] =
                           IF cloud["nodes"] = "active" THEN "active" ELSE "inProgress"]
            /\ out' = Say("info", "Kubernetes resources deployed")
            /\ Goto("setup_ecr_and_images")
  /\ Did("deploy_kubernetes")
  /\ UNCHANGED reply /\ Env /\ NoSynth

\* a docker login, build and push of both images under set -e
PushImages(next) ==
  \E ok \in BOOLEAN :
    /\ ok => Has("docker") /\ Has("aws") /\ credsOk /\ Exists("ecr_backend")
                /\ Exists("ecr_frontend")
    /\ calls' = IF Has("docker") /\ Has("aws")
                  THEN Call("push", "ecr_backend", ok) ELSE calls
    /\ IF ok
         THEN out' = Say("success", "Images built and pushed successfully") /\ Goto(next)
         ELSE out' = out /\ Exit(1)

setup_ecr_and_images ==
  /\ At("infra_sh", "setup_ecr_and_images")
  /\ PushImages("create_environment_config")
  /\ Did("setup_ecr_and_images")
  /\ UNCHANGED <<reply, cloud>> /\ Env /\ NoSynth

create_environment_config ==
  /\ At("infra_sh", "create_environment_config")
  /\ out' = Say("info", "Environment configuration created in .env.deployment")
  /\ Goto("show_deployment_info")
  /\ Did("create_environment_config")
  /\ Local

show_deployment_info ==
  /\ At("infra_sh", "show_deployment_info")
  /\ out' = Say("info", "Infrastructure deployed successfully!")
  /\ Exit(0)
  /\ Did("show_deployment_info")
  /\ Local

InfraSh ==
  \/ InfraSh_env
  \/ check_costs
  \/ InfraSh_deploy_infrastructure
  \/ InfraSh_configure_kubectl
  \/ deploy_kubernetes
  \/ setup_ecr_and_images
  \/ create_environment_config
  \/ show_deployment_info

----------------------------------------------------------------------------
(* Function bodies that the full-deployment script (part_009) and the      *)
(* project setup script (scripts/deploy-fargate-direct.sh) share word for  *)
(* word; both run under set -e                                             *)

Sh_install_dependencies(next) ==
  /\ out' = Say("success", "Dependencies installed")
  /\ Goto(next)

\* if ! describe-stacks CDKToolkit; then cdk bootstrap; else skip; fi, after
\* the account id has been looked up
Sh_bootstrap(next) ==
  LET seen == Append(Call("describe", "identity", credsOk),
                     [op |-> "describe", target |-> "bootstrap",
                      ok |-> credsOk /\ Bootstrapped])
  IN  IF credsOk /\ Bootstrapped
        THEN /\ calls' = seen /\ cloud' = cloud
             /\ out' = Say("info", "CDK already bootstrapped, skipping...")
             /\ Goto(next)
        ELSE \E ok \in BOOLEAN :
               /\ ok => credsOk
               /\ IF ~Has("cdk")
                    THEN calls' = seen /\ cloud' = cloud /\ out' = out /\ Exit(1)
                    ELSE /\ calls' = Append(seen, [op |-> "bootstrap", target |-> "bootstrap",
                                                   ok |-> ok])
                         /\ IF ok
                              THEN /\ cloud' = [cloud EXCEPT !["bootstrap"] = "active"]
                                   /\ out' = Say("success", "CDK bootstrapped successfully")
                                   /\ Goto(next)
                              ELSE cloud' = cloud /\ out' = out /\ Exit(1)

\* npx nx build infrastructure; npx nx run infrastructure:deploy
Sh_deploy_infrastructure(next) ==
  \E o \in DeployOutcomes :
    /\ Possible(o)
    /\ LET d == CdkDeploy(o, TRUE)
       IN  /\ built' = d.built /\ calls' = d.calls /\ cloud' = d.cloud
           /\ IF d.ok
                THEN out' = Say("success", "Infrastructure deployed successfully")
                     /\ Goto(next)
                ELSE out' = out /\ Exit(1)

Sh_deploy_monitoring(next) ==
  \E ok \in BOOLEAN :
    /\ ok => credsOk /\ Bootstrapped
    /\ LET d == CdkDeployMonitoring(ok)
       IN  /\ calls' = d.calls /\ cloud' = d.cloud
           /\ IF ok
                THEN out' = Say("success", "Monitoring stack deployed successfully")
                     /\ Goto(next)
                ELSE out' = out /\ Exit(1)

\* kubectl apply namespace, secrets, backend; kubectl rollout status --timeout=300s
Sh_deploy_k8s_manifests(next) ==
  IF ~KubectlWorks
    THEN /\ calls' = Call("apply", "k8s", FALSE)
         /\ cloud' = cloud /\ out' = out
         /\ Exit(1)
    ELSE \E rolled \in BOOLEAN :
           /\ rolled => cloud["nodes"] \in {"inProgress", "active"}
           /\ ~rolled => cloud["nodes"] # "active"
           /\ calls' = Append(Call("apply", "k8s", TRUE),
                              [op |-> "wait", target |-> "k8s", ok |-> rolled])
           /\ IF rolled
                THEN /\ cloud' = [cloud EXCEPT !["nodes"] = "active", !["k8s"] = "active"]
                     /\ out' = Say("success", "Kubernetes manifests deployed successfully")
                     /\ Goto(next)
                ELSE /\ cloud' = [cloud EXCEPT !["k8s"] = "inProgress"]
                     /\ out' = out
                     /\ Exit(1)

Sh_run(next, msg) ==
  \E ok \in BOOLEAN :
    IF ok THEN out' = Say("success", msg) /\ Goto(next)
    ELSE out' = out /\ Exit(1)

\* if aws eks describe-cluster; then print_success; else print_error; fi ...
Sh_show_status(msg) ==
  /\ calls' = StatusCalls
  /\ out' = Append(Say(IF credsOk /\ Exists("cluster") THEN "success" ELSE "error",
                       "EKS Cluster"),
                   [sev |-> "success", msg |-> msg])
  /\ Exit(0)

----------------------------------------------------------------------------
(* The full-deployment script, --full (part_009) *)

Full_check_prerequisites ==
  /\ At("full_deploy", "check_prerequisites")
  /\ CheckTools({"node", "npm", "aws", "kubectl", "docker"}, "check_aws_credentials")
  /\ Did("check_prerequisites")
  /\ Local

Full_check_aws_credentials ==
  /\ At("full_deploy", "check_aws_credentials")
  /\ IF ~credsOk
       THEN /\ calls' = Call("describe", "identity", FALSE)
            /\ out' = Say("error", "AWS credentials not configured or invalid")
            /\ Exit(1)
       ELSE /\ calls' = Append(Call("describe", "identity", TRUE),
                               [op |-> "describe", target |-> "identity", ok |-> TRUE])
            /\ out' = Say("success", "AWS credentials configured")
            /\ Goto("install_dependencies")
  /\ Did("check_aws_credentials")
  /\ UNCHANGED <<reply, cloud>> /\ Env /\ NoSynth

Full_install_dependencies ==
  /\ At("full_deploy", "install_dependencies")
  /\ Sh_install_dependencies("bootstrap_cdk")
  /\ Did("install_dependencies")
  /\ Local

\* local account_id=$(aws sts get-caller-identity ...)
Full_bootstrap_cdk ==
  /\ At("full_deploy", "bootstrap_cdk")
  /\ Sh_bootstrap("deploy_infrastructure")
  /\ Did("bootstrap_cdk")
  /\ UNCHANGED reply /\ Env /\ NoSynth

Full_deploy_infrastructure ==
  /\ At("full_deploy", "deploy_infrastructure")
  /\ Sh_deploy_infrastructure("deploy_monitoring")
  /\ Did("deploy_infrastructure")
  /\ UNCHANGED <<reply, cfg>> /\ Env

Full_deploy_monitoring ==
  /\ At("full_deploy", "deploy_monitoring")
  /\ Sh_deploy_monitoring("configure_kubectl")
  /\ Did("deploy_monitoring")
  /\ UNCHANGED reply /\ Env /\ NoSynth

\* aws eks update-kubeconfig; aws eks wait cluster-active
Full_configure_kubectl ==
  /\ At("full_deploy", "configure_kubectl")
  /\ IF credsOk /\ cloud["cluster"] = "active"
       THEN /\ calls' = Append(Call("describe", "cluster", TRUE),
                               [op |-> "wait", target |-> "cluster", ok |-> TRUE])
            /\ out' = Say("success", "kubectl configured for EKS cluster")
            /\ Goto("deploy_k8s_manifests")
       ELSE /\ calls' = Call("describe", "cluster", FALSE)
            /\ out' = out
            /\ Exit(1)
  /\ Did("configure_kubectl")
  /\ UNCHANGED <<reply, cloud>> /\ Env /\ NoSynth

Full_deploy_k8s_manifests ==
  /\ At("full_deploy", "deploy_k8s_manifests")
  /\ Sh_deploy_k8s_manifests("build_and_push_images")
  /\ Did("deploy_k8s_manifests")
  /\ UNCHANGED reply /\ Env /\ NoSynth

Full_build_and_push_images ==
  /\ At("full_deploy", "build_and_push_images")
  /\ PushImages("run_tests")
  /\ Did("build_and_push_images")
  /\ UNCHANGED <<reply, cloud>> /\ Env /\ NoSynth

Full_run_tests ==
  /\ At("full_deploy", "run_tests")
  /\ Sh_run("build_applications", "Tests completed successfully")
  /\ Did("run_tests")
  /\ Local

Full_build_applications ==
  /\ At("full_deploy", "build_applications")
  /\ Sh_run("show_status", "Applications built successfully")
  /\ Did("build_applications")
  /\ Local

Full_show_status ==
  /\ At("full_deploy", "show_status")
  /\ Sh_show_status("Full deployment completed!")
  /\ Did("show_status")
  /\ UNCHANGED <<reply, cloud>> /\ Env /\ NoSynth

FullDeploy ==
  \/ Full_check_prerequisites
  \/ Full_check_aws_credentials
  \/ Full_install_dependencies
  \/ Full_bootstrap_cdk
  \/ Full_deploy_infrastructure
  \/ Full_deploy_monitoring
  \/ Full_configure_kubectl
  \/ Full_deploy_k8s_manifests
  \/ Full_build_and_push_images
  \/ Full_run_tests
  \/ Full_build_applications
  \/ Full_show_status

----------------------------------------------------------------------------
(* scripts/deploy-fargate-direct.sh, the project setup script: start *)

Fargate_check_prerequisites ==
  /\ At("fargate_start", "check_prerequisites")
  /\ CheckTools({"node", "npm", "aws", "kubectl", "docker", "git"}, "install_dependencies")
  /\ Did("check_prerequisites")
  /\ Local

Fargate_install_dependencies ==
  /\ At("fargate_start", "install_dependencies")
  /\ Sh_install_dependencies("bootstrap_cdk")
  /\ Did("install_dependencies")
  /\ Local

\* local account_id=$(check_aws_credentials): the exit 1 of the check ends
\* only the command substitution, and `local` hides its status
Fargate_bootstrap_cdk ==
  /\ At("fargate_start", "bootstrap_cdk")
  /\ Sh_bootstrap("deploy_infrastructure")
  /\ trace' = trace \o <<"bootstrap_cdk", "check_aws_credentials">>
  /\ UNCHANGED reply /\ Env /\ NoSynth

Fargate_deploy_infrastructure ==
  /\ At("fargate_start", "deploy_infrastructure")
  /\ Sh_deploy_infrastructure("deploy_monitoring")
  /\ Did("deploy_infrastructure")
  /\ UNCHANGED <<reply, cfg>> /\ Env

Fargate_deploy_monitoring ==
  /\ At("fargate_start", "deploy_monitoring")
  /\ Sh_deploy_monitoring("configure_kubectl")
  /\ Did("deploy_monitoring")
  /\ UNCHANGED reply /\ Env /\ NoSynth

\* if aws eks update-kubeconfig; then aws eks wait cluster-active; else warning; fi
Fargate_configure_kubectl ==
  /\ At("fargate_start", "configure_kubectl")
  /\ IF credsOk /\ cloud["cluster"] = "active"
       THEN /\ calls' = Append(Call("describe", "cluster", TRUE),
                               [op |-> "wait", target |-> "cluster", ok |-> TRUE])
            /\ out' = Say("success", "kubectl configured for EKS cluster")
       ELSE /\ calls' = Call("describe", "cluster", FALSE)
            /\ out' = Say("warning", "Failed to configure kubectl. The cluster might not be ready yet.")
  /\ Goto("deploy_k8s_manifests")
  /\ Did("configure_kubectl")
  /\ UNCHANGED <<reply, cloud>> /\ Env /\ NoSynth

Fargate_deploy_k8s_manifests ==
  /\ At("fargate_start", "deploy_k8s_manifests")
  /\ Sh_deploy_k8s_manifests("build_and_push_images")
  /\ Did("deploy_k8s_manifests")
  /\ UNCHANGED reply /\ Env /\ NoSynth

Fargate_build_and_push_images ==
  /\ At("fargate_start", "build_and_push_images")
  /\ PushImages("run_tests")
  /\ trace' = trace \o <<"build_and_push_images", "check_aws_credentials">>
  /\ UNCHANGED <<reply, cloud>> /\ Env /\ NoSynth

Fargate_run_tests ==
  /\ At("fargate_start", "run_tests")
  /\ Sh_run("build_applications", "Tests completed successfully")
  /\ Did("run_tests")
  /\ Local

Fargate_build_applications ==
  /\ At("fargate_start", "build_applications")
  /\ Sh_run("show_status", "Applications built successfully")
  /\ Did("build_applications")
  /\ Local

Fargate_show_status ==
  /\ script \in {"fargate_start", "fargate_status"} /\ pc = "show_status"
  /\ Sh_show_status(IF script = "fargate_status" THEN "=== Useful Commands ==="
                    ELSE "Complete infrastructure started successfully!")
  /\ Did("show_status")
  /\ UNCHANGED <<reply, cloud>> /\ Env /\ NoSynth

FargateStart ==
  \/ Fargate_check_prerequisites
  \/ Fargate_install_dependencies
  \/ Fargate_bootstrap_cdk
  \/ Fargate_deploy_infrastructure
  \/ Fargate_deploy_monitoring
  \/ Fargate_configure_kubectl
  \/ Fargate_deploy_k8s_manifests
  \/ Fargate_build_and_push_images
  \/ Fargate_run_tests
  \/ Fargate_build_applications
  \/ Fargate_show_status

Deploy ==
  \/ Ps1Deploy
  \/ SimpleStart
  \/ InfraSh
  \/ FullDeploy
  \/ FargateStart

----------------------------------------------------------------------------
(* Helper scripts.  Status polling: deploy-working-setup.sh (no set -e)    *)
(* and scripts/wait-for-fargate.sh (set -e).  Add-ons installed from the   *)
(* command line: scripts/deploy-fargate-cli.sh (set -e)                    *)

WaitScripts == {"working_setup", "wait_for_fargate"}

\* the status command of deploy.ps1 and of deploy-fargate-direct.sh, and the
\* status target of the Makefile
StatusScripts == {"ps1_status", "fargate_status", "make_status"}

\* the describe calls sent so far: one per turn of a wait loop
Polls == Cardinality({i \in 1..Len(calls) : calls[i].op = "describe"})

InitWait ==
  /\ script \in WaitScripts \cup {"deploy_cli"} \cup StatusScripts
  /\ pc = CASE script = "deploy_cli"     -> "profiles"
            [] script = "ps1_status"     -> "Show-Status"
            [] script = "fargate_status" -> "show_status"
            [] script = "make_status"    -> "status"
            [] OTHER                     -> "wait"
  /\ reply = "<none>"
  /\ calls = << >>
  /\ cloud \in {CloudOf(0, FALSE, FALSE, FALSE, TRUE),
                CloudOf(3, TRUE, FALSE, FALSE, TRUE)}
  /\ out = << >>
  /\ trace = << >>
  /\ exitCode = -1
  /\ missing = "none"
  /\ credsOk \in BOOLEAN
  /\ cfg = DefaultConfig
  /\ stackKind = "Raw"
  /\ built = NotBuilt
  /\ orphans = {}
  /\ flags = DefaultFlags
  /\ plan = << >>
  /\ again = << >>
  /\ shell = << >>

\* Makefile, target status: describe-cluster, list-fargate-profiles and
\* `kubectl get nodes` are bare recipe lines (make stops at the first that
\* fails); the remaining kubectl queries end in `|| echo` or sit in an `if`
Makefile_status ==
  /\ script = "make_status" /\ pc = "status"
  /\ \E okK \in BOOLEAN :
       LET okC == credsOk /\ Exists("cluster")
           q(t, ok) == [op |-> "describe", target |-> t, ok |-> ok]
       IN  /\ okK => (okC /\ Exists("nodes"))
           /\ calls' = IF ~okC THEN calls \o << q("cluster", FALSE) >>
                        ELSE calls \o << q("cluster", TRUE), q("nodes", TRUE),
                                         q("k8s", okK) >>
           /\ out' = IF okC /\ okK THEN Say("info", "Sample App Status") ELSE out
           /\ Exit(IF okC /\ okK THEN 0 ELSE 2)
  /\ Did("status")
  /\ UNCHANGED <<reply, cloud>> /\ Env /\ NoSynth

\* one turn of `while true`: status=$(describe-stacks || echo "DELETED");
\* DELETED breaks, DELETE_FAILED sends delete-stack, anything else sleeps
\* ("UNKNOWN": any status the script has no case for)
WorkingSetup_wait ==
  /\ At("working_setup", "wait")
  /\ Polls < MaxPolls
  /\ \E status \in {"DELETED", "DELETE_FAILED", "DELETE_IN_PROGRESS", "UNKNOWN"} :
       /\ ~credsOk => status = "DELETED"
       /\ out' = Say("info", status)
       /\ IF status = "DELETED"
            THEN /\ calls' = Call("describe", "infra", FALSE)
                 /\ Goto("deploy")
            ELSE IF status = "DELETE_FAILED"
              THEN /\ calls' = Append(Call("describe", "infra", TRUE),
                                      [op |-> "delete", target |-> "infra", ok |-> TRUE])
                   /\ Goto("wait")
            ELSE /\ calls' = Call("describe", "infra", TRUE)
                 /\ Goto("wait")
  /\ UNCHANGED <<reply, cloud, trace>> /\ Env /\ NoSynth

\* npx cdk deploy --all; describe-cluster; describe-nodegroup; "SETUP COMPLETE!"
WorkingSetup_deploy ==
  /\ At("working_setup", "deploy")
  /\ \E o \in DeployOutcomes :
       /\ Possible(o)
       /\ LET d == CdkDeploy(o, TRUE)
          IN  /\ built' = d.built
              /\ cloud' = d.cloud
              /\ calls' = Append(d.calls, [op |-> "describe", target |-> "cluster",
                                           ok |-> credsOk /\ d.cloud["cluster"] = "active"])
  /\ out' = Say("success", "SETUP COMPLETE!")
  /\ Exit(0)
  /\ Did("deploy")
  /\ UNCHANGED <<reply, cfg>> /\ Env

\* one turn of `while true` for a profile: ACTIVE breaks, a failed status
\* exits 1, CREATING and any unknown status sleep 30 and poll again
WaitForFargate_wait ==
  /\ At("wait_for_fargate", "wait")
  /\ Polls < MaxPolls
  /\ IF ~credsOk
       THEN /\ calls' = Call("describe", "profile", FALSE)
            /\ out' = out
            /\ Exit(1)
       ELSE \E status \in {"ACTIVE", "CREATE_FAILED", "DELETE_FAILED",
                            "CREATING", "UNKNOWN"} :
              /\ calls' = Call("describe", "profile", TRUE)
              /\ out' = Say("info", status)
              /\ IF status = "ACTIVE" THEN Exit(0)
                 ELSE IF status \in {"CREATE_FAILED", "DELETE_FAILED"} THEN Exit(1)
                 ELSE Goto("wait")
  /\ UNCHANGED <<reply, cloud, trace>> /\ Env /\ NoSynth

\* deploy-fargate-cli.sh steps 1 to 4: the account id, the pod execution role
\* and the Fargate profiles created when absent, then wait-for-fargate.sh;
\* none of the commands has a fallback
DeployCli_profiles ==
  /\ At("deploy_cli", "profiles")
  /\ IF ~credsOk
       THEN /\ calls' = Call("describe", "identity", FALSE)
            /\ out' = out
            /\ Exit(1)
       ELSE \E role \in BOOLEAN, profile \in BOOLEAN, okR \in BOOLEAN,
               okP \in BOOLEAN, active \in BOOLEAN :
              LET c1 == Append(Call("describe", "identity", TRUE),
                               [op |-> "describe", target |-> "role", ok |-> role])
                  c2 == IF role THEN c1
                        ELSE Append(c1, [op |-> "create", target |-> "role", ok |-> okR])
                  c3 == Append(c2, [op |-> "describe", target |-> "cluster",
                                    ok |-> cloud["cluster"] = "active"])
                  c4 == Append(c3, [op |-> "describe", target |-> "profile", ok |-> profile])
                  c5 == IF profile THEN c4
                        ELSE Append(c4, [op |-> "create", target |-> "profile", ok |-> okP])
                  c6 == Append(c5, [op |-> "wait", target |-> "profile", ok |-> active])
              IN  IF ~role /\ ~okR
                    THEN calls' = c2 /\ out' = out /\ Exit(1)
                  ELSE IF cloud["cluster"] # "active"
                    THEN calls' = c3 /\ out' = out /\ Exit(1)
                  ELSE IF ~profile /\ ~okP
                    THEN calls' = c5 /\ out' = out /\ Exit(1)
                  ELSE IF ~active
                    THEN calls' = c6 /\ out' = out /\ Exit(1)
                  ELSE /\ calls' = c6
                       /\ out' = Say("success", "All Fargate profiles are active!")
                       /\ Goto("addons")
  /\ Did("profiles")
  /\ UNCHANGED <<reply, cloud>> /\ Env /\ NoSynth

\* steps 5 and 6: aws eks update-addon coredns || true; eksctl create
\* iamserviceaccount || true; helm upgrade --install aws-load-balancer-controller
DeployCli_addons ==
  /\ At("deploy_cli", "addons")
  /\ \E okC \in BOOLEAN, okS \in BOOLEAN, okA \in BOOLEAN :
       /\ calls' = calls \o
            << [op |-> "install", target |-> "coredns", ok |-> okC],
               [op |-> "create", target |-> "serviceaccount", ok |-> okS],
               [op |-> "install", target |-> "aws-load-balancer-controller", ok |-> okA] >>
       /\ IF okA
            THEN /\ out' = out \o
                      << [sev |-> "success", msg |-> "CoreDNS migration to Fargate initiated"],
                         [sev |-> "success", msg |-> "AWS Load Balancer Controller installed"],
                         [sev |-> "success", msg |-> "Fargate deployment complete!"] >>
                 /\ Exit(0)
            ELSE /\ out' = Say("success", "CoreDNS migration to Fargate initiated")
                 /\ Exit(1)
  /\ Did("addons")
  /\ UNCHANGED <<reply, cloud>> /\ Env /\ NoSynth

----------------------------------------------------------------------------
(* Interactive container setup: container-setup.sh and the simple          *)
(* container setup (part_016), both under set -e.  shell.frames counts the *)
(* calls of the menu handler that wait in their default branch for the    *)
(* call they made to return.                                               *)

MenuScripts == {"container_setup", "simple_setup"}

InitMenu ==
  /\ script \in MenuScripts \cup {"container_test"}
  /\ pc = IF script = "container_test" THEN "tests" ELSE "main"
  /\ reply = "<none>"
  /\ calls = << >>
  /\ cloud \in {CloudOf(0, FALSE, FALSE, FALSE, FALSE),
                CloudOf(3, TRUE, FALSE, FALSE, TRUE)}
  /\ out = << >>
  /\ trace = << >>
  /\ exitCode = -1
  /\ missing = "none"
  /\ credsOk \in BOOLEAN
  /\ cfg = DefaultConfig
  /\ stackKind = "CostOptimized"
  /\ built = NotBuilt
  /\ orphans = {}
  /\ flags = DefaultFlags
  /\ plan = << >>
  /\ again = << >>
  /\ shell = IF script = "container_test"
              THEN [next |-> 1, passed |-> 0, failed |-> 0, warnings |-> 0,
                    total |-> 0]
              ELSE [frames |-> 0]

\* main: credentials are verified, cdk bootstrap runs bare, then the summary
\* and the first prompt of the menu
Setup_main ==
  /\ script \in MenuScripts /\ pc = "main"
  /\ \E ok \in BOOLEAN :
       /\ ok => credsOk
       /\ IF ~credsOk
            THEN /\ calls' = calls /\ cloud' = cloud
                 /\ out' = Say("error", "AWS configuration failed. Please try again.")
                 /\ Exit(1)
            ELSE /\ calls' = Call("deploy", "bootstrap", ok)
                 /\ cloud' = IF ok THEN [cloud EXCEPT !["bootstrap"] = "active"] ELSE cloud
                 /\ IF ok
                      THEN /\ out' = Append(Say("info", "Container Setup Complete!"),
                                            [sev |-> "prompt", msg |-> "Enter your choice"])
                           /\ Goto("menu")
                      ELSE out' = out /\ Exit(1)
  /\ Did("main")
  /\ UNCHANGED reply /\ Env /\ NoSynth

\* one call of the menu handler on the choice just read.  After the case
\* statement the handler prompts and calls itself; the default branch prompts and
\* calls the handler inside the case statement, so that call's return comes
\* back to the end of the branch.
MenuTurn(exitKey) ==
  /\ pc = "menu"
  /\ Len(trace) <= MaxChoices
  /\ LET prompt == [sev |-> "prompt", msg |-> "Enter your choice"]
         again_(lines) == /\ out' = out \o lines \o << prompt >>
                          /\ Goto("menu")
     IN \E c \in {"1", "2", "5", exitKey, "x"} :
         CASE c = exitKey ->
                /\ Did("exit")
                /\ IF shell.frames = 0
                     THEN /\ out' = Say("info", "Exiting setup")
                          /\ Exit(0)
                          /\ shell' = shell
                     ELSE /\ again_(<< [sev |-> "info", msg |-> "Exiting setup"] >>)
                          /\ shell' = [shell EXCEPT !.frames = @ - 1]
                /\ UNCHANGED <<reply, calls, cloud>>
           [] c = "x" ->
                /\ Did("invalid")
                /\ again_(<< [sev |-> "error", msg |-> "Invalid choice"] >>)
                /\ shell' = [shell EXCEPT !.frames = @ + 1]
                /\ UNCHANGED <<reply, calls, cloud>>
           [] c = "1" ->
                /\ Did("deploy_infrastructure")
                /\ shell' = shell
                /\ \E r \in {"y", "Y", "n", ""}, o \in {"ok", "failed", "cancelled"} :
                     /\ reply' = r
                     /\ o = "ok" => credsOk
                     /\ IF r \notin {"y", "Y"} \/ o = "cancelled"
                          THEN /\ again_(<< [sev |-> "info", msg |-> "Deployment cancelled"] >>)
                               /\ UNCHANGED <<calls, cloud>>
                          ELSE /\ calls' = Call("deploy", "infra", o = "ok")
                               /\ IF o = "ok"
                                    THEN /\ cloud' = Deployed(cloud, "ok")
                                         /\ again_(<< >>)
                                    ELSE /\ cloud' = cloud
                                         /\ out' = out
                                         /\ Exit(1)
           [] c = "2" ->
                /\ Did("run_validation")
                /\ shell' = shell
                /\ \E ok \in BOOLEAN :
                     /\ calls' = Call("describe", "cluster", ok)
                     /\ IF ok THEN again_(<< >>) ELSE out' = out /\ Exit(1)
                /\ UNCHANGED <<reply, cloud>>
           [] c = "5" ->
                /\ Did("teardown_infrastructure")
                /\ shell' = shell
                /\ \E ok \in BOOLEAN :
                     /\ ok => credsOk
                     /\ calls' = Call("delete", "infra", ok)
                     /\ cloud' = IF ok THEN StackDestroyed(cloud, "infra") ELSE cloud
                     /\ IF ok THEN again_(<< >>) ELSE out' = out /\ Exit(1)
                /\ UNCHANGED reply
  /\ UNCHANGED <<script, missing, credsOk, stackKind, orphans, flags, plan, again>>
  /\ NoSynth

\* container-setup.sh: 7 is Exit
handle_workflow_choice ==
  /\ script = "container_setup"
  /\ MenuTurn("7")

\* simple container setup: 6 is manual mode, which leaves the menu
handle_choice ==
  /\ script = "simple_setup"
  /\ MenuTurn("6")

----------------------------------------------------------------------------
(* Container workflow test script (part_000), under set -e *)

\* the calls of the script in order: "test" is run_test, "warn" is
\* run_test_warning, "aws" is the block that runs its two tests only with
\* configured credentials.  The npm block is entered with node_modules
\* present, the run having passed "Node modules installed" before it.
Tests ==
  << "test", "test", "test", "test", "test", "test", "test", "test",
     "test", "test", "test", "test", "test", "test", "test",
     "aws",
     "warn", "warn",
     "warn", "test",
     "test", "warn", "warn",
     "test", "test", "test",
     "warn", "warn", "warn",
     "test", "test", "test", "warn",
     "warn", "warn", "warn" >>

\* run_test / run_test_warning called as a bare command: the function counts
\* the outcome and returns 1 when the test command failed, and under set -e
\* that return value ends the script
run_test ==
  /\ script = "container_test" /\ pc = "tests"
  /\ shell.next <= Len(Tests)
  /\ LET kind == Tests[shell.next]
     IN \E ok \in BOOLEAN :
          IF kind = "aws" /\ ~credsOk
            THEN /\ calls' = Call("describe", "identity", FALSE)
                 /\ shell' = [shell EXCEPT !.next = @ + 1, !.warnings = @ + 1]
                 /\ out' = Say("warning", "AWS credentials not configured")
                 /\ Goto("tests")
          ELSE IF kind = "aws"
            THEN /\ calls' = Append(Call("describe", "identity", TRUE),
                                    [op |-> "describe", target |-> "identity", ok |-> TRUE])
                 /\ IF ok
                      THEN /\ shell' = [shell EXCEPT !.next = @ + 1, !.passed = @ + 2]
                           /\ out' = Say("info", "PASSED")
                           /\ Goto("tests")
                      ELSE /\ shell' = [shell EXCEPT !.passed = @ + 1, !.failed = @ + 1]
                           /\ out' = Say("error", "FAILED")
                           /\ Exit(1)
          ELSE /\ calls' = calls
               /\ IF ok
                    THEN /\ shell' = [shell EXCEPT !.next = @ + 1, !.passed = @ + 1]
                         /\ out' = Say("info", "PASSED")
                         /\ Goto("tests")
                    ELSE /\ shell' = IF kind = "test"
                                       THEN [shell EXCEPT !.failed = @ + 1]
                                       ELSE [shell EXCEPT !.warnings = @ + 1]
                         /\ out' = IF kind = "test" THEN Say("error", "FAILED")
                                    ELSE Say("warning", "WARNING (not critical)")
                         /\ Exit(1)
  /\ Did("run_test")
  /\ UNCHANGED <<reply, cloud>>
  /\ UNCHANGED <<script, missing, credsOk, stackKind, orphans, flags, plan, again>>
  /\ NoSynth

\* TOTAL_TESTS=$((PASSED + FAILED + WARNINGS)); exit 1 if any test failed
test_summary ==
  /\ script = "container_test" /\ pc = "tests"
  /\ shell.next > Len(Tests)
  /\ shell' = [shell EXCEPT !.total = shell.passed + shell.failed + shell.warnings]
  /\ out' = Append(Say("info", "Test Summary"),
                   IF shell.failed # 0
                     THEN [sev |-> "error", msg |-> "Some tests failed"]
                   ELSE IF shell.warnings = 0
                     THEN [sev |-> "info", msg |-> "All tests passed!"]
                   ELSE [sev |-> "warning", msg |-> "Tests passed with warnings"])
  /\ Exit(IF shell.failed # 0 THEN 1 ELSE 0)
  /\ Did("test_summary")
  /\ UNCHANGED <<reply, calls, cloud>>
  /\ UNCHANGED <<script, missing, credsOk, stackKind, orphans, flags, plan, again>>
  /\ NoSynth

----------------------------------------------------------------------------
(* Properties of the teardown runs *)

\* the exact text each prompt compares the reply to; "<none>" where the
\* entrypoint reads no prompt
Token(sc) ==
  CASE sc = "cleanup_aws"   -> "YES"
    [] sc = "destroy_all"   -> "yes"
    [] sc = "fargate_clean" -> "yes"
    [] sc = "teardown_doc"  -> "DELETE"
    [] OTHER                -> "<none>"

DeleteCalls == {i \in 1..Len(calls) : calls[i].op = "delete"}

Prompted == reply # "<none>"

Cancelled ==
  /\ Len(out) > 0
  /\ out[Len(out)].msg \in {"Cleanup cancelled by user", "Cleanup cancelled.",
                            "Cleanup cancelled", "Teardown cancelled"}

\* C1: when the operator is prompted and types anything other than the exact
\* confirmation token, the run ends at once with the cancellation message and
\* has sent no delete command to the collaborator.
C1_DeclinedDeletesNothing ==
  (script \in TeardownScripts /\ Prompted /\ reply # Token(script)) =>
     /\ pc = "done"
     /\ Cancelled
     /\ DeleteCalls = {}

\* a prompt was answered with a near-miss of the token and the run has ended
C1_Witness ==
  /\ script = "cleanup_aws"
  /\ reply = "yes"
  /\ pc = "done"
  /\ exitCode = 1
  /\ cloud["cluster"] = "active"

\* C2: no destroy / stop / cleanup entrypoint sends a delete command unless
\* the operator typed the exact confirmation token at a prompt earlier in the
\* same run.
C2_NoDeleteWithoutToken ==
  (script \in TeardownScripts /\ DeleteCalls # {}) => (Prompted /\ reply = Token(script))

\* the teardown stage a delete command belongs to: 1 workloads, 2 registry,
\* 3 cluster, 4 network; a stack destroy removes cluster and network together
Stages(target) ==
  CASE target = "k8s"                            -> {1}
    [] target \in {"ecr_backend", "ecr_frontend"} -> {2}
    [] target = "cluster"                        -> {3}
    [] target = "vpc"                            -> {4}
    [] target = "infra"                          -> {3, 4}
    [] OTHER                                     -> {}

\* C3: teardown sends its delete commands in the order workloads, registry,
\* cluster, network: no delete of a later stage precedes a delete of an
\* earlier stage.
C3_TeardownOrder ==
  \A i \in DeleteCalls, j \in DeleteCalls :
     i < j => \A a \in Stages(calls[i].target), b \in Stages(calls[j].target) : a <= b

----------------------------------------------------------------------------
(* Properties of the deploy runs *)

Deploying == script \in DeployScripts

CallsOf(ops) == {i \in 1..Len(calls) : calls[i].op \in ops}

\* C5: a run whose sizing configuration violates min <= desired <= max ends
\* in a ValidationError of the assembler and sends nothing at all to the
\* collaborator: the log of collaborator calls stays empty.  Stated for runs
\* whose tools and credentials are in order, so that nothing else stops them.
C5_InvalidConfigNoCalls ==
  (Deploying /\ missing = "none" /\ credsOk /\ ~SizingValid(main_ts(cfg))) =>
     /\ calls = << >>
     /\ built.err \in {"unbuilt", "ValidationError"}

\* C6: when the creation of the cluster fails, the run halts there with a
\* non-zero exit, the failed deployment is the last command it sent (no node
\* group, no later step), and the node group was never created.
C6_ClusterFailureHalts ==
  (Deploying /\ cloud["cluster"] = "failed") =>
     /\ pc = "done"
     /\ exitCode # 0
     /\ calls[Len(calls)] = [op |-> "deploy", target |-> "infra", ok |-> FALSE]
     /\ cloud["nodes"] # "active"

\* C7: a run advances past a bootstrap or deployment command only when the
\* command succeeded; a failed one halts the run and is surfaced by a
\* non-zero exit, never silently skipped.
C7_FailureHaltsAndSurfaces ==
  Deploying =>
    \A i \in CallsOf({"bootstrap", "deploy"}) :
       ~calls[i].ok =>
          /\ i = Len(calls)
          /\ pc = "done"
          /\ exitCode # 0

\* C8: a dependent resource is submitted only once its dependencies are
\* active: Kubernetes manifests have been applied only when the cluster and
\* its nodes are active.
C8_ManifestsOnlyOnActiveNodes ==
  (Deploying /\ CallsOf({"apply"}) # {}) =>
     /\ cloud["cluster"] = "active"
     /\ cloud["nodes"] = "active"

\* the lifecycle phase a script function belongs to: 1 prerequisite and
\* credential check, 2 dependency install, 3 bootstrap, 4 deployment,
\* 5 verification; 0 for a step outside the lifecycle
PhaseOf(step) ==
  CASE step \in {"check_prerequisites", "check_aws_credentials",
                 "Test-Prerequisites", "Test-AwsCredentials"}     -> 1
    [] step \in {"install_dependencies", "Install-Dependencies"}  -> 2
    [] step \in {"bootstrap_cdk", "Start-CdkBootstrap"}           -> 3
    [] step \in {"deploy_infrastructure", "deploy_monitoring",
                 "configure_kubectl", "deploy_k8s_manifests",
                 "deploy_kubernetes", "build_and_push_images",
                 "setup_ecr_and_images", "run_tests",
                 "build_applications", "create_environment_config",
                 "Deploy-Infrastructure", "Deploy-Monitoring",
                 "Invoke-Tests", "Build-Applications"}            -> 4
    [] step \in {"show_status", "Show-Status"}                    -> 5
    [] OTHER                                                      -> 0

InPhase(step) == PhaseOf(step) > 0

Visited == SelectSeq(trace, InPhase)

\* C9: every deploy run visits the phases in the declared order
\* prerequisite and credential check, dependency install, bootstrap,
\* deployment, verification: it starts in the first, never goes back, never
\* skips one, and a run that completes has reached verification.
C9_PhasesInDeclaredOrder ==
  Deploying =>
    /\ \A i \in 1..Len(Visited) :
          /\ PhaseOf(Visited[i]) <= (IF i = 1 THEN 1 ELSE PhaseOf(Visited[i-1]) + 1)
          /\ i > 1 => PhaseOf(Visited[i]) >= PhaseOf(Visited[i-1])
    /\ (pc = "done" /\ exitCode = 0 /\ Len(Visited) > 0) =>
          PhaseOf(Visited[Len(Visited)]) = 5

\* C10: with a required tool missing or the credentials invalid, the run
\* aborts before it sends any bootstrap, deploy, apply or push command.
C10_NoCreateWithoutPrerequisites ==
  (Deploying /\ (missing \in {"node", "npm", "aws"} \/ ~credsOk)) =>
     CallsOf({"bootstrap", "deploy", "apply", "push"}) = {}

\* C11: a run is past the bootstrap step only when the one-time bootstrap
\* stack exists: an absent stack is bootstrapped before the deployment
\* starts, and the bootstrap command is sent only after the stack was looked
\* up and not found.  Stated for runs with valid credentials.
C11_BootstrappedBeforeDeployment ==
  (Deploying /\ credsOk) =>
     /\ (\E i \in 1..Len(trace), j \in 1..Len(trace) :
            /\ i < j
            /\ PhaseOf(trace[i]) = 3
            /\ PhaseOf(trace[j]) = 4) => Bootstrapped
     /\ \A k \in CallsOf({"bootstrap"}) :
            /\ k > 1
            /\ calls[k-1] = [op |-> "describe", target |-> "bootstrap", ok |-> FALSE]

\* C19: a bring-up run that finds every resource of the plan already active
\* sends no creation command: no step taken while the bootstrap stack, the
\* network, the registries, the cluster, the nodes and the monitoring are all
\* active adds a bootstrap or deploy call.
C19_SecondBringUpCreatesNothing ==
  [][(Deploying /\ \A r \in Resources \ {"k8s"} : cloud[r] = "active") =>
        \A k \in (Len(calls)+1)..Len(calls') :
           calls'[k].op \notin {"bootstrap", "deploy"}]_vars

\* C20: a bring-up run that finds only some resources active sends no
\* creation command for what is already active: no bootstrap call while the
\* bootstrap stack is active, and no deploy call for the infrastructure
\* stack while the network, the registries, the cluster and the nodes are
\* all active.  Stated for runs with valid credentials.
C20_ActiveResourcesSkipped ==
  [][(/\ Deploying /\ credsOk
      /\ \E r \in Resources \ {"k8s"} : cloud[r] # "active") =>
        \A k \in (Len(calls)+1)..Len(calls') :
           /\ calls'[k].op = "bootstrap" => ~Bootstrapped
           /\ (calls'[k].op = "deploy" /\ calls'[k].target = "infra") =>
                 \E r \in {"vpc", "ecr_backend", "ecr_frontend", "cluster",
                            "nodes"} : cloud[r] # "active"]_vars

----------------------------------------------------------------------------
(* Properties of failure handling *)

\* the delete calls for an auxiliary resource (log groups, the monitoring
\* stack) that failed while every other delete call of the run succeeded
OnlySoftFailure ==
  {i \in DeleteCalls :
     /\ calls[i].target \in {"logs", "monitoring"}
     /\ ~calls[i].ok
     /\ \A j \in DeleteCalls \ {i} : calls[j].ok}

C22_FailedDeletionDoesNotEndRun ==
  (/\ script \in TeardownScripts /\ Prompted
   /\ pc = "done" /\ exitCode # 0
   /\ Len(calls) > 0
   /\ calls[Len(calls)].op = "delete" /\ ~calls[Len(calls)].ok) =>
     \A r \in {"ecr_backend", "ecr_frontend", "cluster"} :
        Exists(r) => \E j \in DeleteCalls : r \in Deletes(calls[j].target)

\* C23: every status-polling loop is bounded: whatever statuses the
\* collaborator reports, a loop that has polled MaxPolls times has stopped
\* polling.  (The loops keep no count of their own; MaxPolls is how far the
\* polling is explored.)
C23_PollingIsBounded ==
  (script \in WaitScripts /\ Polls >= MaxPolls) => pc # "wait"

\* C24: a step whose wait exceeds its timeout is treated as failed: a wait
\* that timed out is the last command the run sends, and the run has ended
\* with a non-zero exit code.
C24_TimeoutIsFailure ==
  Deploying =>
    \A i \in CallsOf({"wait"}) :
       ~calls[i].ok => /\ i = Len(calls)
                       /\ pc = "done"
                       /\ exitCode # 0

\* C25: the test run and the application build are soft-fail phases: a deploy
\* run never ends in one of them, it always continues to the following step.
C25_SoftPhaseNeverAborts ==
  (/\ Deploying
   /\ Len(trace) > 0
   /\ trace[Len(trace)] \in {"run_tests", "build_applications",
                              "Invoke-Tests", "Build-Applications"}) =>
     pc # "done"

\* C26: an add-on that fails to install is logged and does not abort the
\* run: every failed install command is followed by a warning or an error
\* line, and the run has not ended with a non-zero exit code.
C26_AddonFailureLoggedAndSkipped ==
  \A i \in CallsOf({"install"}) :
     ~calls[i].ok =>
        /\ \E k \in 1..Len(out) : out[k].sev \in {"warning", "error"}
        /\ ~(pc = "done" /\ exitCode # 0)

\* C27: a teardown the operator declines is a deliberate abort, not a
\* failure: when the reply to the prompt is not the confirmation token, the
\* run exits with code 0.
C27_DeclinedExitsZero ==
  (script \in TeardownScripts /\ Prompted /\ reply # Token(script)) =>
     (pc = "done" /\ exitCode = 0)

\* C28: a deploy run exits with code 0 if and only if it reached verified:
\* its verification step ran and the network, the registries, the cluster
\* and the nodes are active; a run that ends otherwise has a non-zero exit
\* code and an error line as its last output.  Stated for runs the operator
\* did not cancel at a prompt.
C28_ExitZeroIffVerified ==
  (Deploying /\ pc = "done" /\ reply \in {"<none>", "y", "Y"}) =>
     /\ exitCode = 0 <=>
          /\ \E i \in 1..Len(trace) : PhaseOf(trace[i]) = 5
          /\ \A r \in {"vpc", "ecr_backend", "ecr_frontend", "cluster", "nodes"} :
                cloud[r] = "active"
     /\ exitCode # 0 => (Len(out) > 0 /\ out[Len(out)].sev = "error")

\* C29: a teardown run reports success (exit code 0 together with a
\* completed/successful teardown message as its last line) only when a final
\* re-query has been made and every resource of the plan is absent.
C29_SuccessOnlyWhenVerifiedAbsent ==
  (/\ script \in TeardownScripts
   /\ pc = "done"
   /\ exitCode = 0
   /\ Len(out) > 0
   /\ out[Len(out)].msg \in {"Teardown completed successfully!",
                             "Infrastructure destroyed successfully!",
                             "Cleanup Complete! All AWS resources have been destroyed",
                             "AWS cleanup completed", "Cleanup completed",
                             "Infrastructure stopped successfully!"}) =>
     /\ \A r \in Resources : ~Exists(r)
     /\ \E i \in 1..Len(calls) :
          /\ calls[i].op = "describe"
          /\ \A j \in DeleteCalls : j < i

\* C30: status is a read-only query.  A step of a status run, and the status
\* step that ends a deploy run, sends only describe calls to the collaborator
\* (never a create, update or delete call) and leaves the state of every
\* resource as it was.
C30_StatusIsReadOnly ==
  [][(script \in StatusScripts \/ pc \in {"Show-Status", "show_status"}) =>
       /\ cloud' = cloud
       /\ Len(calls') >= Len(calls)
       /\ \A i \in 1..Len(calls') :
            IF i <= Len(calls) THEN calls'[i] = calls[i]
            ELSE calls'[i].op = "describe"]_vars

C30_Witness ==
  /\ script \in StatusScripts
  /\ pc = "done"
  /\ Exists("cluster")
  /\ Len(calls) >= 3
  /\ \A i \in 1..Len(calls) : calls[i].op = "describe"

----------------------------------------------------------------------------
(* Properties of the configuration carried into the stack *)

\* C32: for every supplied triple of non-negative sizes, 0 included, the
\* node group of the constructed stack carries exactly the supplied minimum,
\* maximum and desired size; no supplied value is replaced by a default.
C32_SizesCarriedAsSupplied ==
  built.err = "none" =>
    /\ built.min = cfg.min
    /\ built.max = cfg.max
    /\ built.desired = cfg.desired

\* C38: getAllResources returns every resource the stack created for
\* cleanup: the cluster, both registries, the network, the log groups, the
\* alarm topic, the dashboard, and the hosted zone and the certificate when
\* domainName is set, each appear in the returned list whenever the stack
\* holds them.
C38_AllResourcesListed ==
  (script = "synth" /\ pc = "done" /\ stackKind = "IAgent" /\ built.err = "none") =>
    LET listed == {getAllResources(plan)[i] : i \in 1..Len(getAllResources(plan))}
    IN  \A r \in Names(plan) \cap
                 {"cluster", "backendRepository", "frontendRepository", "vpc",
                  "IAgentAppLogs", "IAgentAccessLogs", "IAgentErrorLogs",
                  "alarmTopic", "dashboard", "hostedZone", "certificate"} :
          r \in listed

\* C39: after construction and any sequence of calls of enableMonitoring
\* (with true or false) the monitoring setup has run at most once: the stack
\* holds at most one dashboard and at most one alarm topic.
C39_MonitoringSetUpAtMostOnce ==
  (script = "synth" /\ stackKind = "IAgent") =>
    /\ Cardinality({i \in 1..Len(plan) : plan[i].name = "dashboard"}) <= 1
    /\ Cardinality({i \in 1..Len(plan) : plan[i].name = "alarmTopic"}) <= 1
    /\ Cardinality({i \in 1..Len(trace) : trace[i] = "setupMonitoring"})
         + (IF pc = "done" /\ built.err = "none" /\ flags.monitoring THEN 1 ELSE 0) <= 1

C39_Witness ==
  /\ script = "synth" /\ pc = "done" /\ stackKind = "IAgent"
  /\ ~flags.monitoring
  /\ trace = << "setupMonitoring" >>
  /\ Cardinality({i \in 1..Len(plan) : plan[i].name = "dashboard"}) = 1
  /\ Cardinality({i \in 1..Len(plan) : plan[i].name = "alarmTopic"}) = 1

\* C33: the node group of a stack that takes the spot-capacity flag has
\* capacity type spot if and only if the flag is true (a flag left out takes
\* its default, true); a configuration that gives the flag as false always
\* yields an on-demand node group.
C33_SpotIffFlag ==
  (built.err = "none" /\ script = "synth" /\ stackKind \in {"CostOptimized", "Raw"}) =>
    /\ built.capacityType = "SPOT" <=> cfg.spot \in {"true", "undefined"}
    /\ cfg.spot = "false" => built.capacityType = "ON_DEMAND"

C33_Witness ==
  /\ script = "synth" /\ pc = "done" /\ built.err = "none"
  /\ stackKind = "CostOptimized"
  /\ cfg.spot = "false"
  /\ built.capacityType = "ON_DEMAND"

\* C34: in a destroy/stop run the destroy call for the monitoring stack comes
\* before the destroy call for the main infrastructure stack, and when the
\* monitoring destroy fails the infrastructure destroy is still issued.
C34_MonitoringDestroyedFirst ==
  script \in {"ps1_destroy", "fargate_stop"} =>
    /\ \A i \in DeleteCalls :
         calls[i].target = "infra" =>
           \E j \in DeleteCalls : j < i /\ calls[j].target = "monitoring"
    /\ pc = "done" =>
         \A j \in DeleteCalls :
           (calls[j].target = "monitoring" /\ ~calls[j].ok) =>
             \E i \in DeleteCalls : i > j /\ calls[i].target = "infra"

C34_Witness ==
  /\ script = "ps1_destroy" /\ pc = "done"
  /\ Len(calls) = 2
  /\ calls[1] = [op |-> "delete", target |-> "monitoring", ok |-> FALSE]
  /\ calls[2].op = "delete" /\ calls[2].target = "infra"

----------------------------------------------------------------------------
(* Properties of the interactive gates and menus *)

\* C35: at the cost-confirmation gate only a reply of y or Y lets the run
\* continue.  With any other reply, the empty one included, the run ends
\* there, and no call is sent to the collaborator in that step or after it.
C35_OnlyYesPassesCostGate ==
  [][(script \in {"infra_sh"} \cup MenuScripts /\ reply' \notin {"<none>", "y", "Y"}) =>
       (calls' = calls /\ pc' = "done")]_vars

\* C36: in the container workflow test script a failing test never keeps
\* the later tests from running: whatever the outcomes, a finished run has
\* executed every test and reached the summary, where Total = Passed +
\* Failed + Warnings, and its exit code is 1 exactly when a run_test failed.
C36_AllTestsRunAndCounted ==
  (script = "container_test" /\ pc = "done") =>
    /\ shell.next > Len(Tests)
    /\ \E k \in 1..Len(out) : out[k].msg = "Test Summary"
    /\ shell.total = shell.passed + shell.failed + shell.warnings
    /\ exitCode = 1 <=> shell.failed > 0

\* C37: choosing Exit ends the menu loop after any earlier choices, invalid
\* ones included: the Exit choice is the last step of the run, and no prompt
\* is shown after it.
C37_ExitEndsMenu ==
  script \in MenuScripts =>
    \A i \in 1..Len(trace) :
       trace[i] = "exit" =>
         /\ i = Len(trace)
         /\ pc = "done"
         /\ out[Len(out)].sev # "prompt"

Init == InitTeardown \/ InitDeploy \/ InitWait \/ InitMenu

Next ==
  \/ Teardown
  \/ Deploy
  \/ WorkingSetup_wait
  \/ WorkingSetup_deploy
  \/ WaitForFargate_wait
  \/ DeployCli_profiles
  \/ DeployCli_addons
  \/ Makefile_status
  \/ Setup_main
  \/ handle_workflow_choice
  \/ handle_choice
  \/ run_test
  \/ test_summary

Spec == Init /\ [][Next]_vars

====
